---- MODULE Spec2Model ----
(***************************************************************************)
(* Model of the fingerprint core-point detector (CorePointDetector.cpp):   *)
(* detect_core_point, its pipeline stages, update_stats and detect_batch.  *)
(*                                                                         *)
(* Numbers.  Floats are held as scaled integers:                           *)
(*   angles                     milliradians                               *)
(*   orientation variance       10^-6 rad^2                                *)
(*   confidence, min_confidence millionths                                 *)
(*   quality, frequency, local contrast   thousandths                      *)
(* Products round down where the float product rounds to nearest.          *)
(*                                                                         *)
(* Images.  cv::Mat is a record: its shape (empty, channels, rows, cols),  *)
(* its pixels (PixelAt), and the values the image library returns for it:  *)
(* the orientation field of the preprocessed image (OrientationAt), the    *)
(* local standard deviations (freq, contrast), the quality scores, and     *)
(* the pipeline stage at which the library raises for it (fault).          *)
(*                                                                         *)
(* Image cache (FileManager.cpp): load_image with its two critical         *)
(* sections, the eviction loop, set_cache_size_mb, clear_cache and         *)
(* get_current_cache_usage_mb, called from two threads.  A path is its     *)
(* list of components; a decoded image is a cv::Mat header that points to  *)
(* a numbered pixel buffer, so that clone and a shared header differ.      *)
(* load_images_batch runs on thread 1 while thread 2 loads single images.  *)
(*                                                                         *)
(* Termination (SpecBatchFair): detect_batch with every thread scheduled,  *)
(* for the default block size and for block size 1, whose candidate search *)
(* has stride 0.                                                           *)
(***************************************************************************)
EXTENDS Integers, Sequences, FiniteSets, TLC

\* ------------------------------------------------------------------ bounds
MaxCalls == 2
MaxRepeatCalls == 3
MaxLoads == 3
MaxSettings == 1

\* ------------------------------------------------------- program constants
ROI_SIZE == 101
HALF_SIZE == 50
MARGIN == 50
MIN_DIM == 101
QUALITY_GATE == 200
VARIANCE_THRESHOLD == 500000
PI_MILLI == 3142
LOCAL_WINDOW == 21

\* ------------------------------------------------------------ small helpers
Min(a, b) == IF a < b THEN a ELSE b

Abs(a) == IF a < 0 THEN -a ELSE a

\* a * b / 1000 rounded down, for a >= 0, without leaving 32 bits
MulMilli(a, b) == (a \div 1000) * b + ((a % 1000) * b) \div 1000

Digits6(n) ==
    LET d(k) == ToString((n \div k) % 10)
    IN d(100000) \o d(10000) \o d(1000) \o d(100) \o d(10) \o d(1)

\* std::to_string(float) of a non-negative value held in millionths: "%f"
to_string(c) == ToString(c \div 1000000) \o "." \o Digits6(c % 1000000)

\* ------------------------------------------------------------------ images
Stages == <<"preprocess", "quality_assessment", "orientation_field",
            "ridge_frequency", "core_detection", "core_validation",
            "roi_extraction", "final_quality">>

Mat(id, empty, channels, rows, cols, seed, quality, freq, contrast, roi_quality, spots, fault) ==
    [id |-> id, empty |-> empty, channels |-> channels, rows |-> rows,
     cols |-> cols, seed |-> seed, quality |-> quality, freq |-> freq,
     contrast |-> contrast, roi_quality |-> roi_quality, spots |-> spots,
     fault |-> fault]

\* image.at<uint8_t>(r, c) of the input image
PixelAt(image, r, c) == (image.seed + 7 * r + 13 * c) % 256

\* orientation_field.at<float>(y, x): the doubled-angle orientation the
\* library gradients give for the preprocessed image, in milliradians
OrientationAt(image, y, x) ==
    IF <<x, y>> \in DOMAIN image.spots THEN image.spots[<<x, y>>] ELSE 0

NoSpots == [q \in {} |-> 0]

Spot(x, y, a) == [q \in {<<x, y>>} |-> a]

Spots2(x1, y1, a1, x2, y2, a2) ==
    [q \in {<<x1, y1>>, <<x2, y2>>} |-> IF q = <<x1, y1>> THEN a1 ELSE a2]

ImgEmpty   == Mat(1, TRUE, 3, 0, 0, 0, 0, 0, 0, 0, NoSpots, "none")
ImgColor   == Mat(2, FALSE, 3, 50, 50, 5, 600, 400, 500, 600, NoSpots, "none")
ImgSmall   == Mat(3, FALSE, 1, 100, 150, 9, 600, 400, 500, 600, NoSpots, "none")
ImgFlat    == Mat(4, FALSE, 1, 200, 200, 128, 0, 0, 0, 0, NoSpots, "none")
ImgNoCand  == Mat(5, FALSE, 1, 120, 120, 17, 600, 400, 500, 600, NoSpots, "none")
ImgGood    == Mat(6, FALSE, 1, 120, 120, 23, 600, 400, 500, 450,
                  Spot(56, 56, 1500), "none")
ImgEdge    == Mat(7, FALSE, 1, 120, 120, 31, 600, 400, 500, 450,
                  Spot(16, 24, 1500), "none")
ImgLowConf == Mat(8, FALSE, 1, 120, 120, 41, 600, 400, 100, 450,
                  Spot(56, 56, 1500), "none")
ImgTwo     == Mat(9, FALSE, 1, 130, 120, 53, 700, 400, 500, 800,
                  Spots2(56, 64, 1500, 64, 56, 1500), "none")

\* horizontal ridges around (x, y): gx is zero, so the doubled-angle formula
\* gives -pi/2 on the rows where gy is negative (row y) and +pi/2 on the rows
\* where it is positive (the rows around it)
Stripes(x, y) ==
    [q \in {<<x + 2 * dx, y + 2 * dy>> : dx \in -4..4, dy \in -4..4} |->
        IF q[2] = y THEN -1570 ELSE 1570]

ImgStripes == Mat(19, FALSE, 1, 120, 120, 61, 700, 450, 450, 700,
                  Stripes(56, 56), "none")

\* an image of exactly 101x101 with a singularity on the search grid
ImgMinimal == Mat(20, FALSE, 1, 101, 101, 67, 600, 400, 500, 450,
                  Spot(48, 48, 1500), "none")

FaultImage(k) == [ImgGood EXCEPT !.id = 10 + k, !.fault = Stages[k]]

FaultImages == {FaultImage(k) : k \in 1..Len(Stages)}

TestImages == {ImgEmpty, ImgColor, ImgSmall, ImgFlat, ImgNoCand, ImgGood,
               ImgEdge, ImgLowConf, ImgTwo, ImgStripes, ImgMinimal}
                  \cup FaultImages

\* ------------------------------------------------------------ configuration
DetectionParams == [min_confidence |-> 300000, gaussian_kernel_size |-> 5,
                    gaussian_sigma |-> 1000, sobel_kernel_size |-> 3,
                    block_size |-> 16, ridge_threshold |-> 500,
                    use_simd |-> TRUE]

ParamChoices == {DetectionParams,
                 [DetectionParams EXCEPT !.min_confidence = 0],
                 [DetectionParams EXCEPT !.gaussian_kernel_size = 4,
                                         !.use_simd = FALSE]}

\* -------------------------------------------------------------- data model
CorePoint(x, y, conf) == [x |-> x, y |-> y, confidence |-> conf]

ZeroPixels == [y \in 0..(ROI_SIZE - 1) |-> [x \in 0..(ROI_SIZE - 1) |-> 0]]

ROI == [pixels |-> ZeroPixels, filename |-> "", file_index |-> -1]

DetectionResult == [core_points |-> <<>>, extracted_roi |-> ROI,
                    overall_quality |-> 0, processing_time_us |-> 0,
                    error_message |-> "", success |-> FALSE]

\* the counters of ProcessingStats; its two running averages are floats that
\* no counter depends on and are not held
ProcessingStats == [total_images_processed |-> 0, successful_detections |-> 0,
                    failed_detections |-> 0, simd_operations_used |-> 0]

\* the constructor's parameter validation
CorePointDetector(detection_params, simd) ==
    LET g == detection_params.gaussian_kernel_size
        s == detection_params.sobel_kernel_size
    IN [detection_params EXCEPT
          !.gaussian_kernel_size = IF g % 2 = 0 THEN g + 1 ELSE g,
          !.sobel_kernel_size = IF s % 2 = 0 THEN s + 1 ELSE s,
          !.use_simd = IF detection_params.use_simd /\ ~simd
                       THEN FALSE ELSE detection_params.use_simd]

\* ---------------------------------------------------------- pipeline stages
\* cv::Sobel in both directions on the preprocessed image: the two gradient
\* images, held as the doubled-angle orientation they give at each pixel
Sobel(image, ksize) == image.spots

\* gradient images that are zero everywhere
compute_gradients_zero(image, config) == NoSpots

compute_gradients_scalar(image, config) == Sobel(image, config.sobel_kernel_size)

\* the branch compiled with __AVX2__, the only one a call can reach, since
\* simd_available is true only in such a build
compute_gradients_simd(image, config) == Sobel(image, config.sobel_kernel_size)

\* the preprocessed image with the orientation field computed for it on the
\* SIMD or on the scalar gradient path
compute_orientation_field(image, config, simd) ==
    [image EXCEPT !.spots = IF config.use_simd /\ simd
                            THEN compute_gradients_simd(image, config)
                            ELSE compute_gradients_scalar(image, config)]

\* a quality score that passes every image
assess_full_quality(image) == 1000

\* min(1.0, contrast + 0.5 * sharpness) of the preprocessed image
assess_image_quality(image) == Min(1000, image.quality)

\* the same formula on the 101x101 patch
assess_roi_quality(image) == Min(1000, image.roi_quality)

\* frequency_field.at<float>(y, x): zero outside the half-window interior
compute_ridge_frequency(image, config, y, x) ==
    LET half_window == config.block_size \div 2
    IN IF /\ y >= half_window /\ y < image.rows - half_window
          /\ x >= half_window /\ x < image.cols - half_window
       THEN image.freq
       ELSE 0

\* the values a loop "for (v = first; v < limit; v += step)" visits, in order
LoopValues(first, limit, step) ==
    LET n == IF first < limit THEN ((limit - 1 - first) \div step) + 1 ELSE 0
    IN [k \in 1..n |-> first + (k - 1) * step]

\* s[lo] + ... + s[hi], where each s[j] is a pair <<term, counted>>
RECURSIVE SumPairs(_, _, _)
SumPairs(s, lo, hi) ==
    IF lo > hi THEN <<0, 0>>
    ELSE IF lo = hi THEN s[lo]
    ELSE LET mid == (lo + hi) \div 2
             l == SumPairs(s, lo, mid)
             r == SumPairs(s, mid + 1, hi)
         IN <<l[1] + r[1], l[2] + r[2]>>

\* mean squared circular orientation difference around (x, y); -1 if count = 0
OrientationVariance(image, window_size, x, y) ==
    LET half == window_size \div 2
        n == half + 1      \* dy, dx = -half, -half + 2, ... while <= half
        center_orientation == OrientationAt(image, y, x)
        Sample(j) ==
            LET dy == -half + 2 * ((j - 1) \div n)
                dx == -half + 2 * ((j - 1) % n)
            IN IF /\ y + dy >= 0 /\ y + dy < image.rows
                  /\ x + dx >= 0 /\ x + dx < image.cols
               THEN LET d0 == Abs(OrientationAt(image, y + dy, x + dx)
                                  - center_orientation)
                        diff == IF d0 > PI_MILLI THEN 2 * PI_MILLI - d0 ELSE d0
                    IN <<diff * diff, 1>>
               ELSE <<0, 0>>
    IN CHOOSE variance \in
           {IF acc[2] > 0 THEN acc[1] \div acc[2] ELSE -1 :
               acc \in {SumPairs([j \in 1..(n * n) |-> Sample(j)], 1, n * n)}} :
           TRUE

\* the body of the grid loops at (x, y): the candidate it builds and whether
\* it passes "variance > 0.5f && confidence > min_confidence"
Probe(image, config, y, x) ==
    LET orientation_variance ==
            OrientationVariance(image, config.block_size, x, y)
        frequency_quality == compute_ridge_frequency(image, config, y, x)
        confidence == MulMilli(orientation_variance, frequency_quality)
    IN [point |-> CorePoint(x, y, confidence),
        emitted |-> /\ orientation_variance > VARIANCE_THRESHOLD
                    /\ confidence > config.min_confidence]

\* the grid in loop order: y outer, x inner
ScanOrder(ys, xs) ==
    [j \in 1..(Len(ys) * Len(xs)) |->
        [y |-> ys[((j - 1) \div Len(xs)) + 1], x |-> xs[((j - 1) % Len(xs)) + 1]]]

detect_core_candidates(image, config) ==
    LET window_size == config.block_size
        step == window_size \div 2
        grid == ScanOrder(LoopValues(window_size, image.rows - window_size, step),
                          LoopValues(window_size, image.cols - window_size, step))
        Emitted(g) == Probe(image, config, g.y, g.x).emitted
        Built(g) == Probe(image, config, g.y, g.x).point
    IN CHOOSE candidates \in
           {[k \in DOMAIN kept |-> Built(kept[k])] :
               kept \in {SelectSeq(grid, Emitted)}} : TRUE

\* a margin check two pixels narrower than the ROI half-extent
is_point_valid_narrow(point, image_width, image_height) ==
    /\ point.x >= MARGIN - 2 /\ point.x < image_width - (MARGIN - 2)
    /\ point.y >= MARGIN - 2 /\ point.y < image_height - (MARGIN - 2)
    /\ point.confidence > 0

is_point_valid(point, image_width, image_height) ==
    /\ point.x >= MARGIN /\ point.x < image_width - MARGIN
    /\ point.y >= MARGIN /\ point.y < image_height - MARGIN
    /\ point.confidence > 0

\* a validation that halves the confidence of every valid point
validate_halving(image, candidate) ==
    IF ~is_point_valid(candidate, image.cols, image.rows) THEN 0
    ELSE candidate.confidence \div 2

validate_core_point(image, candidate) ==
    LET x == candidate.x
        y == candidate.y
        half_window == LOCAL_WINDOW \div 2
    IN IF ~is_point_valid(candidate, image.cols, image.rows) THEN 0
       ELSE IF \/ x - half_window < 0 \/ x + half_window >= image.cols
               \/ y - half_window < 0 \/ y + half_window >= image.rows
            THEN candidate.confidence \div 2
            ELSE MulMilli(candidate.confidence, image.contrast)

\* a maximum search that moves on at equal confidence: the last maximum
select_last_best(candidates) ==
    LET RECURSIVE MaxElement(_, _)
        MaxElement(best, i) ==
            IF i > Len(candidates) THEN best
            ELSE MaxElement(IF candidates[best].confidence <= candidates[i].confidence
                            THEN i ELSE best, i + 1)
    IN IF candidates = <<>> THEN CorePoint(0, 0, 0)
       ELSE candidates[MaxElement(1, 2)]

\* std::max_element with "a.confidence < b.confidence": the first maximum
select_best_core_point(candidates) ==
    LET RECURSIVE MaxElement(_, _)
        MaxElement(best, i) ==
            IF i > Len(candidates) THEN best
            ELSE MaxElement(IF candidates[best].confidence < candidates[i].confidence
                            THEN i ELSE best, i + 1)
    IN IF candidates = <<>> THEN CorePoint(0, 0, 0)
       ELSE candidates[MaxElement(1, 2)]

ClampWrapped(v, dim) == v % dim

\* std::max(0, std::min(v, dim - 1))
Clamp(v, dim) == IF v < 0 THEN 0 ELSE IF v >= dim THEN dim - 1 ELSE v

\* the copy loops of extract_roi_around_point
ExtractPixels(image, center_x, center_y) ==
    [y \in 0..(ROI_SIZE - 1) |-> [x \in 0..(ROI_SIZE - 1) |->
        PixelAt(image, Clamp(center_y - HALF_SIZE + y, image.rows),
                       Clamp(center_x - HALF_SIZE + x, image.cols))]]

\* ------------------------------------------------------------- tabulation
\* The candidate search and the pixel copy are functions of their arguments;
\* they are tabulated over the arguments the specifications use, so that each
\* is evaluated once.
SearchKeys ==
    {<<image, p.block_size, p.min_confidence>> :
        image \in TestImages, p \in ParamChoices}

CandidateTable ==
    [k \in SearchKeys |->
        detect_core_candidates(k[1], [DetectionParams EXCEPT
                                        !.block_size = k[2],
                                        !.min_confidence = k[3]])]

Candidates(image, config) ==
    IF <<image, config.block_size, config.min_confidence>> \in SearchKeys
    THEN CandidateTable[<<image, config.block_size, config.min_confidence>>]
    ELSE detect_core_candidates(image, config)

\* every (image, candidate point) the search finds
PixelKeys ==
    UNION {{<<e[1][1], e[2][j].x, e[2][j].y>> : j \in DOMAIN e[2]} :
              e \in {<<k, CandidateTable[k]>> : k \in SearchKeys}}

PixelTable == [k \in PixelKeys |-> ExtractPixels(k[1], k[2], k[3])]

extract_roi_around_point(image, core_point, filename, file_index) ==
    [pixels |-> IF <<image, core_point.x, core_point.y>> \in PixelKeys
                THEN PixelTable[<<image, core_point.x, core_point.y>>]
                ELSE ExtractPixels(image, core_point.x, core_point.y),
     filename |-> filename,
     file_index |-> file_index]

\* ------------------------------------------------------- detect_core_point
\* What one call does: the result it returns, the pipeline stages it entered
\* (in order), whether it reached update_stats, and whether the SIMD gradient
\* path counted an operation.  elapsed is detection_timer.stop().
Outcome(result, stages, reached_update_stats, simd_counted) ==
    [result |-> result, stages |-> stages,
     reached_update_stats |-> reached_update_stats,
     simd_counted |-> simd_counted]

\* catch (const std::exception& e), then lines 158-161
Caught(result, stages, simd_counted, elapsed) ==
    Outcome([result EXCEPT
               !.error_message = "Exception during processing: " \o "library error",
               !.processing_time_us = elapsed],
            stages, TRUE, simd_counted)

\* an early "return result;" inside the try block
Rejected(result, message, stages, simd_counted, elapsed) ==
    Outcome([result EXCEPT !.error_message = message,
                           !.processing_time_us = elapsed],
            stages, FALSE, simd_counted)

\* the image library throws inside the k-th stage for this image
Raises(image, k) == image.fault = Stages[k]

\* the stages entered by a call that got as far as the k-th
StagesTo(k) == SubSeq(Stages, 1, k)

\* lines 136-161: ROI extraction, the success flag, the final quality score
ExtractAndFinish(image, filename, file_index, simd_path, elapsed, result, best_core) ==
    LET extracted == [result EXCEPT
                        !.extracted_roi = extract_roi_around_point(
                            image, best_core, filename, file_index),
                        !.core_points = <<best_core>>,
                        !.success = TRUE]
    IN IF Raises(image, 8)
       THEN Caught(extracted, StagesTo(8), simd_path, elapsed)
       ELSE Outcome([extracted EXCEPT
                       !.overall_quality = Min(@, assess_roi_quality(image)),
                       !.processing_time_us = elapsed],
                    StagesTo(8), TRUE, simd_path)

\* a validation that also moves the point to the image centre
validated_at_centre(image, selected, confidence) ==
    CorePoint(image.cols \div 2, image.rows \div 2, confidence)

\* best_core.confidence = validate_core_point(...): the selected candidate
\* with its confidence replaced
validated(image, selected, confidence) ==
    [selected EXCEPT !.confidence = confidence]

\* lines 121-134: selection, validation and the confidence threshold
ValidateBest(image, filename, file_index, config, simd_path, elapsed, result, selected) ==
    CHOOSE outcome \in
        {IF best_core.confidence < config.min_confidence
         THEN Rejected(result,
                       "Core point confidence too low: "
                           \o to_string(best_core.confidence),
                       StagesTo(6), simd_path, elapsed)
         ELSE IF Raises(image, 7)
         THEN Caught(result, StagesTo(7), simd_path, elapsed)
         ELSE ExtractAndFinish(image, filename, file_index, simd_path, elapsed,
                               result, best_core) :
         best_core \in {validated(image, selected,
                                  validate_core_point(image, selected))}} :
        TRUE

\* lines 110-124: the candidate search and what follows it
SearchAndSelect(image, filename, file_index, config, simd_path, elapsed, result) ==
    CHOOSE outcome \in
        {IF candidates = <<>>
         THEN Rejected(result, "No core point candidates found",
                       StagesTo(5), simd_path, elapsed)
         ELSE IF Raises(image, 6)
         THEN Caught(result, StagesTo(6), simd_path, elapsed)
         ELSE CHOOSE o \in
                 {ValidateBest(image, filename, file_index, config, simd_path,
                               elapsed, result, selected) :
                  selected \in {select_best_core_point(candidates)}} : TRUE :
         candidates \in
             {Candidates(compute_orientation_field(image, config, simd_path),
                         config)}} :
        TRUE

InputErrorSizeFirst(image) ==
    IF image.rows < MIN_DIM \/ image.cols < MIN_DIM
    THEN "Input image too small (minimum 101x101)"
    ELSE IF image.channels # 1 THEN "Input image must be grayscale"
    ELSE IF image.empty THEN "Input image is empty"
    ELSE ""

\* lines 68-82: the input checks; "" when the image passes all three
InputError(image) ==
    IF image.empty THEN "Input image is empty"
    ELSE IF image.channels # 1 THEN "Input image must be grayscale"
    ELSE IF image.rows < MIN_DIM \/ image.cols < MIN_DIM
    THEN "Input image too small (minimum 101x101)"
    ELSE ""

detect_core_point(image, filename, file_index, config, simd, elapsed) ==
    LET simd_path == config.use_simd /\ simd
        quality == assess_image_quality(image)
    IN
    IF InputError(image) # ""
    THEN Outcome([DetectionResult EXCEPT !.error_message = InputError(image)],
                 <<>>, FALSE, FALSE)
    ELSE IF Raises(image, 1)
    THEN Caught(DetectionResult, StagesTo(1), FALSE, elapsed)
    ELSE IF Raises(image, 2)
    THEN Caught(DetectionResult, StagesTo(2), FALSE, elapsed)
    ELSE CHOOSE outcome \in
        {IF quality < QUALITY_GATE
         THEN Rejected(result, "Image quality too low for processing",
                       StagesTo(2), FALSE, elapsed)
         ELSE IF Raises(image, 3)
         THEN Caught(result, StagesTo(3), FALSE, elapsed)
         ELSE IF Raises(image, 4)
         THEN Caught(result, StagesTo(4), simd_path, elapsed)
         ELSE IF Raises(image, 5)
         THEN Caught(result, StagesTo(5), simd_path, elapsed)
         ELSE SearchAndSelect(image, filename, file_index, config, simd_path,
                              elapsed, result) :
         result \in {[DetectionResult EXCEPT !.overall_quality = quality]}} :
        TRUE

\* the grid loops of detect_core_candidates never end: with block_size 0 or 1
\* the stride block_size / 2 is 0, and "y += step", "x += step" leave y and x
\* where they are once the call has reached the search and entered both loops
Diverges(image, config) ==
    /\ InputError(image) = ""
    /\ \A k \in 1..5 : ~Raises(image, k)
    /\ assess_image_quality(image) >= QUALITY_GATE
    /\ config.block_size \in {0, 1}
    /\ config.block_size < image.rows - config.block_size
    /\ config.block_size < image.cols - config.block_size

Detectors == {1, 2}

\* detection_timer.stop(): the times a call can take
Elapsed == {40, 90}

\* ------------------------------------------------------------ update_stats
\* update_stats run by one thread alone
update_stats(stats, result) ==
    [stats EXCEPT
       !.total_images_processed = @ + 1,
       !.successful_detections = IF result.success THEN @ + 1 ELSE @,
       !.failed_detections = IF result.success THEN @ ELSE @ + 1]

\* the statistics after one whole detect_core_point call on one thread
StatsAfterCall(stats, outcome) ==
    LET counted == [stats EXCEPT !.simd_operations_used =
                      IF outcome.simd_counted THEN @ + 1 ELSE @]
    IN IF outcome.reached_update_stats
       THEN update_stats(counted, outcome.result)
       ELSE counted

\* ------------------------------------------------------ FileManager: paths
\* 1024 * 1024, the bytes of one megabyte of cache budget
BYTES_PER_MB == 1048576

\* the initial value of max_cache_size_mb
DEFAULT_CACHE_MB == 256

\* image.elemSize() of a matrix decoded with cv::IMREAD_GRAYSCALE
ELEM_SIZE == 1

\* the threads that call into FileManager
Threads == {1, 2}

\* A path string is held as its components: "/work/a.bmp" is the absolute
\* path <<"work", "a.bmp">>, "./a.bmp" the relative path <<".", "a.bmp">>.
Path(absolute, parts) == [absolute |-> absolute, parts |-> parts]

\* the normal form of a component list: "." is dropped, "name/.." is
\* dropped, ".." directly under the root is dropped
RECURSIVE Normal(_, _, _)
Normal(absolute, parts, done) ==
    IF parts = <<>> THEN done
    ELSE IF Head(parts) = "." THEN Normal(absolute, Tail(parts), done)
    ELSE IF Head(parts) # ".." THEN
        Normal(absolute, Tail(parts), Append(done, Head(parts)))
    ELSE IF done # <<>> /\ done[Len(done)] # ".." THEN
        Normal(absolute, Tail(parts), SubSeq(done, 1, Len(done) - 1))
    ELSE IF absolute THEN Normal(absolute, Tail(parts), done)
    ELSE Normal(absolute, Tail(parts), Append(done, ".."))

\* fs::path::lexically_normal: a purely lexical rewrite, the path stays
\* relative when it was relative; a relative path that cancels out is "."
lexically_normal(path) ==
    LET normal == Normal(path.absolute, path.parts, <<>>)
    IN IF path.parts = <<>> THEN path
       ELSE IF normal = <<>> /\ ~path.absolute THEN Path(FALSE, <<".">>)
       ELSE Path(path.absolute, normal)

normalize_path(path) == lexically_normal(path)

\* the working directory of the process
current_path == <<"work">>

\* the file the operating system opens for a path: a relative path is
\* resolved against the working directory
FileOf(path) ==
    Normal(TRUE, IF path.absolute THEN path.parts
                 ELSE current_path \o path.parts, <<>>)

\* the files on disk: the shape and pixels cv::imread decodes, rows = 0 for
\* a file that does not decode
Disk ==
    [f \in {<<"work", "a.bmp">>, <<"work", "b.bmp">>, <<"work", "bad.bmp">>} |->
        IF f[2] = "a.bmp" THEN [rows |-> 1024, cols |-> 1024, pixels |-> "a"]
        ELSE IF f[2] = "b.bmp" THEN [rows |-> 1024, cols |-> 1536, pixels |-> "b"]
        ELSE [rows |-> 0, cols |-> 0, pixels |-> ""]]

\* cv::imread(path, cv::IMREAD_GRAYSCALE): what is decoded, rows = 0 when the
\* file is missing or does not decode
imread(path) ==
    IF FileOf(path) \in DOMAIN Disk THEN Disk[FileOf(path)]
    ELSE [rows |-> 0, cols |-> 0, pixels |-> ""]

\* a single-channel cv::Mat header: its shape and the buffer it points to
\* (0: no buffer)
GrayMat(rows, cols, data) == [rows |-> rows, cols |-> cols, data |-> data]

\* cv::Mat()
NoMat == GrayMat(0, 0, 0)

calculate_image_memory_size(image) == image.rows * image.cols * ELEM_SIZE

ImageCache(image, filepath, memory_size, last_accessed) ==
    [image |-> image, filepath |-> filepath, memory_size |-> memory_size,
     last_accessed |-> last_accessed]

\* max_cache_bytes of cleanup_cache_if_needed
max_cache_bytes(size_mb) == size_mb * BYTES_PER_MB

\* every entry, whatever its last-access time
AnyEntries(cache) == DOMAIN cache

\* the entries remove_oldest_cache_entry may pick: the first entry in the
\* map's iteration order that no entry is older than
OldestEntries(cache) ==
    {k \in DOMAIN cache :
        \A j \in DOMAIN cache : cache[k].last_accessed <= cache[j].last_accessed}

\* a lookup that finds no entry
find_nothing(cache, key) == FALSE

\* image_cache.find(key) != image_cache.end()
find(cache, key) == key \in DOMAIN cache

\* a loop condition that spares the last entry
CleanupNeededAboveOne(size, budget, entries) == size > budget /\ Cardinality(entries) > 1

\* the loop condition of cleanup_cache_if_needed
CleanupNeeded(size, budget, entries) == size > budget /\ entries # {}

\* a map without one key
Erase(cache, key) == [k \in DOMAIN cache \ {key} |-> cache[k]]

\* a map with one key set
Put(cache, key, entry) ==
    [k \in DOMAIN cache \cup {key} |-> IF k = key THEN entry ELSE cache[k]]

\* ------------------------------------------------------------------- state
VARIABLES
    simd_available,     \* static bool CorePointDetector::simd_available
    params,             \* params of each detector
    processing_stats,   \* processing_stats of each detector
    returned,           \* the last direct detect_core_point call and its result
    calls_made,         \* direct detect_core_point calls per detector since reset
    failures_returned,  \* of these, the calls that returned success = false
    reference,          \* an earlier direct call, kept for comparison
    images,             \* detect_batch: its images argument
    filenames,          \* detect_batch: its filenames argument
    parallel,           \* detect_batch: its parallel argument
    futures,            \* detect_batch: the std::async tasks
    results,            \* detect_batch: the results vector
    batch_pc,           \* detect_batch: "idle", "running" or "returned"
    previous,           \* an earlier detect_batch call and what it returned
    search_count,       \* detect_batch: "count" of each search that never ends
    image_cache,        \* static FileManager::image_cache
    cache_mutex,        \* static FileManager::cache_mutex: 0 or the thread holding it
    max_cache_size_mb,  \* static FileManager::max_cache_size_mb
    current_cache_size, \* static FileManager::current_cache_size
    cache_hits,         \* static size_t cache_hits
    cache_misses,       \* static size_t cache_misses
    buffers,            \* the pixel buffers the live cv::Mat headers point to
    clock,              \* the last value std::chrono::steady_clock::now() gave
    loads,              \* load_image: each thread's call, its locals and result
    access,             \* the last access to image_cache or current_cache_size
    history,            \* what the calls made so far did to the cache
    batch_load,         \* load_images_batch: its call, locals and success_flags
    active_timers,      \* thread_local active_timers of each thread
    total_times,        \* static Timer::total_times
    call_counts,        \* static Timer::call_counts
    profile_mutex,      \* static Timer::profile_mutex: 0 or the thread holding it
    profiling,          \* each thread's profile_stop or profile_add call
    timer_now,          \* the last value high_resolution_clock::now() gave
    timer_history,      \* the profiling calls made so far
    files,              \* FileBatch::files
    current_index,      \* FileBatch::current_index
    iteration,          \* what the calls on the FileBatch returned so far
    log_mutex,          \* static Logger::log_mutex: 0 or the thread holding it
    current_level,      \* static Logger::current_level
    running             \* the operation each thread is in and the mutexes it holds

detVars == <<simd_available, params, processing_stats, returned, calls_made,
             failures_returned, reference>>

batchVars == <<images, filenames, parallel, futures, results, batch_pc, previous,
               search_count>>

cacheVars == <<image_cache, cache_mutex, max_cache_size_mb, current_cache_size,
               cache_hits, cache_misses, buffers, clock, loads, access,
               history, batch_load>>

timerVars == <<active_timers, total_times, call_counts, profile_mutex,
               profiling, timer_now, timer_history>>

fileBatchVars == <<files, current_index, iteration>>

lockVars == <<log_mutex, current_level, running>>

utilVars == <<timerVars, fileBatchVars, lockVars>>

vars == <<detVars, batchVars, cacheVars, utilVars>>

CallRecord(d, image, filename, file_index, config, outcome) ==
    [detector |-> d, image |-> image, filename |-> filename,
     file_index |-> file_index, params |-> config, result |-> outcome.result,
     stages |-> outcome.stages,
     reached_update_stats |-> outcome.reached_update_stats]

InitDetectors(choices) ==
    /\ simd_available \in BOOLEAN
    /\ \E p \in choices :
         params = [d \in Detectors |-> CorePointDetector(p, simd_available)]
    /\ processing_stats = [d \in Detectors |-> ProcessingStats]
    /\ returned = <<>>
    /\ calls_made = [d \in Detectors |-> 0]
    /\ failures_returned = [d \in Detectors |-> 0]
    /\ reference = <<>>

InitBatch ==
    /\ images = <<>>
    /\ filenames = <<>>
    /\ parallel = FALSE
    /\ futures = <<>>
    /\ results = <<>>
    /\ batch_pc = "idle"
    /\ previous = <<>>
    /\ search_count = [w \in {} |-> 0]

\* an empty std::unordered_map
EmptyCache == [k \in {} |-> NoMat]

\* one thread's load_image call: where it is (pc), its arguments and locals,
\* and the image, the outcome and the kind (repeat) of its last return
Load(pc, filepath, use_cache, normalized_path, image, budget, result, outcome, repeat) ==
    [pc |-> pc, filepath |-> filepath, use_cache |-> use_cache,
     normalized_path |-> normalized_path, image |-> image,
     max_cache_bytes |-> budget, result |-> result, outcome |-> outcome,
     repeat |-> repeat]

\* a thread that has not called load_image
NoLoad == Load("idle", Path(FALSE, <<>>), FALSE, Path(FALSE, <<>>), NoMat, 0, NoMat, "none", FALSE)

\* the thread of the last access to image_cache or current_cache_size and
\* the holder of cache_mutex at that access
NoAccess == [by |-> 0, holder |-> 0]

\* the calls made, the keys loaded with caching since the budget was set or
\* the cache cleared, the caching loads that missed and decoded, and whether
\* the last set_cache_size_mb put the budget below the bytes then cached
NoHistory ==
    [loads_made |-> 0, settings_made |-> 0, loaded |-> {},
     decoded_misses |-> 0, shrunk |-> FALSE]

\* the success_flags vector of a caller before its load_images_batch call
StaleFlags == <<FALSE, FALSE, FALSE, FALSE>>

\* the load_images_batch call of thread 1: where it is (pc), its arguments
\* (given: success_flags is not null), its images vector and the caller's
\* success_flags vector
BatchLoad(pc, filepaths, use_cache, given, batch_images, success_flags) ==
    [pc |-> pc, filepaths |-> filepaths, use_cache |-> use_cache,
     given |-> given, images |-> batch_images, success_flags |-> success_flags]

NoBatchLoad == BatchLoad("idle", <<>>, FALSE, FALSE, <<>>, StaleFlags)

InitCache ==
    /\ batch_load = NoBatchLoad
    /\ image_cache = EmptyCache
    /\ cache_mutex = 0
    /\ max_cache_size_mb = DEFAULT_CACHE_MB
    /\ current_cache_size = 0
    /\ cache_hits = 0
    /\ cache_misses = 0
    /\ buffers = [i \in {} |-> ""]
    /\ clock = 0
    /\ loads = [t \in Threads |-> NoLoad]
    /\ access = NoAccess
    /\ history = NoHistory

\* the names profiled, as detect_core_point passes them
ProfileNames == {"preprocess", "core_detection"}

\* a Timer object: start_time and is_running
Timer(start_time, is_running) ==
    [start_time |-> start_time, is_running |-> is_running]

\* an unordered_map without entries
EmptyMap == [n \in {} |-> 0]

\* map[name] of std::unordered_map<std::string, number> as an rvalue:
\* operator[] value-initialises a missing entry to 0
At(map, name) == IF name \in DOMAIN map THEN map[name] ELSE 0

\* map[name] = value
Assign(map, name, value) ==
    [n \in DOMAIN map \cup {name} |-> IF n = name THEN value ELSE map[n]]

\* the profile_stop or profile_add call of a thread: where it is (pc), its
\* name argument, the time it adds, the value of call_counts[name] it read
\* and what the last call returned
Profile(pc, op, name, elapsed, count, result) ==
    [pc |-> pc, op |-> op, name |-> name, elapsed |-> elapsed,
     count |-> count, result |-> result]

NoProfile == Profile("idle", "none", "", 0, 0, 0)

\* the profiling calls made: their number, the thread, kind and name of the
\* last one, per name the profile_stop calls that found an active timer and
\* the profile_add calls, and per thread the names the thread started and
\* has not stopped since
NoTimerHistory ==
    [calls |-> 0,
     last |-> <<0, "none", "">>,
     matched |-> [n \in ProfileNames |-> 0],
     added |-> [n \in ProfileNames |-> 0],
     started |-> [t \in Threads |-> {}]]

\* Logger::Level
DEBUG == 0
INFO == 1
WARNING == 2
ERROR == 3

\* a thread outside every operation: nothing left to do, no mutex held
NotRunning == [op |-> "none", todo |-> <<>>, held |-> <<>>]

\* what was done with the FileBatch so far: whether it is constructed, the
\* files next() returned since the construction or the last reset(), the
\* files returned before the last reset(), whether the last call threw
\* std::out_of_range, the number of calls and the last function called
NoIteration ==
    [constructed |-> FALSE, given |-> <<>>, before |-> <<>>, thrown |-> FALSE,
     calls |-> 0, last |-> "none"]

\* the statics of Timer and Logger after static initialisation, no thread
\* inside a call, and a FileBatch not yet constructed
InitUtil ==
    /\ active_timers = [t \in Threads |-> EmptyMap]
    /\ total_times = EmptyMap
    /\ call_counts = EmptyMap
    /\ profile_mutex = 0
    /\ profiling = [t \in Threads |-> NoProfile]
    /\ timer_now = 0
    /\ timer_history = NoTimerHistory
    /\ files = <<>>
    /\ current_index = 0
    /\ iteration = NoIteration
    /\ log_mutex = 0
    /\ current_level = INFO
    /\ running = [t \in Threads |-> NotRunning]

RunDetectionWarm(d, image, filename, file_index, elapsed) ==
    detect_core_point(image, filename, file_index,
                      IF processing_stats[d].total_images_processed > 0
                      THEN [params[d] EXCEPT !.min_confidence = 0]
                      ELSE params[d],
                      simd_available, elapsed)

\* the pipeline of one call on detector d: it reads the detector's params and
\* the static SIMD flag
RunDetection(d, image, filename, file_index, elapsed) ==
    detect_core_point(image, filename, file_index, params[d], simd_available,
                      elapsed)

\* one direct detect_core_point call on detector d, run to its return; keep
\* says whether the call is kept as the reference
DetectCall(d, image, filename, file_index, elapsed, keep) ==
    \E outcome \in {RunDetection(d, image, filename, file_index, elapsed)} :
       /\ processing_stats' = [processing_stats EXCEPT
                                 ![d] = StatsAfterCall(@, outcome)]
       /\ returned' = <<CallRecord(d, image, filename, file_index, params[d],
                                   outcome)>>
       /\ calls_made' = [calls_made EXCEPT ![d] = @ + 1]
       /\ failures_returned' = [failures_returned EXCEPT ![d] =
                                  IF outcome.result.success THEN @ ELSE @ + 1]
       /\ reference' = IF keep THEN returned' ELSE reference
       /\ UNCHANGED <<cacheVars, utilVars, simd_available, params, batchVars>>

set_parameters(d, new_params) ==
    /\ params[d] # new_params
    /\ params' = [params EXCEPT ![d] = new_params]
    /\ UNCHANGED <<cacheVars, utilVars, simd_available, processing_stats, returned, calls_made,
                   failures_returned, reference, batchVars>>

reset_processing_stats(d) ==
    /\ calls_made[d] > 0
    /\ processing_stats' = [processing_stats EXCEPT ![d] = ProcessingStats]
    /\ calls_made' = [calls_made EXCEPT ![d] = 0]
    /\ failures_returned' = [failures_returned EXCEPT ![d] = 0]
    /\ UNCHANGED <<cacheVars, utilVars, simd_available, params, returned, reference, batchVars>>

\* ------------------------------------------- one detector, called in sequence
Init == InitDetectors(ParamChoices) /\ InitBatch /\ InitCache /\ InitUtil

\* the optional arguments of a call, and the time the call takes
CallArgs == {<<"", -1, 40>>, <<"f7.bmp", 7, 90>>}

Detect ==
    /\ calls_made[1] < MaxCalls
    /\ \E image \in TestImages, a \in CallArgs :
          DetectCall(1, image, a[1], a[2], a[3], FALSE)

SetParameters == \E p \in ParamChoices : set_parameters(1, p)

ResetStats == reset_processing_stats(1)

Next == Detect \/ SetParameters \/ ResetStats

Spec == Init /\ [][Next]_vars

\* --------------------------------------- two detectors, calls that repeat
RepeatImages == {ImgGood, ImgEdge}

RepeatParams == {DetectionParams, [DetectionParams EXCEPT !.min_confidence = 0]}

RepeatInit == InitDetectors(RepeatParams) /\ InitBatch /\ InitCache /\ InitUtil

RepeatDetect ==
    /\ calls_made[1] + calls_made[2] < MaxRepeatCalls
    /\ \E d \in Detectors, image \in RepeatImages, elapsed \in Elapsed,
          keep \in BOOLEAN :
          /\ keep => reference = <<>>
          /\ DetectCall(d, image, "", -1, elapsed, keep)

RepeatSetParameters ==
    \E d \in Detectors, p \in RepeatParams : set_parameters(d, p)

RepeatNext == RepeatDetect \/ RepeatSetParameters

SpecRepeat == RepeatInit /\ [][RepeatNext]_vars

\* ------------------------------------------------------------ detect_batch
\* The batch runs on detector 1.  A parallel task is a detect_core_point call
\* on its own thread: its unsynchronized "++" on a statistics counter is a load
\* and a later store, and other tasks run in between.
Future(pc, outcome) ==
    [pc |-> pc, outcome |-> outcome, loaded |-> 0,
     reached_update_stats |-> FALSE, finished |-> 0]

\* a filename that does not follow the position: the first of the list
FilenameFirst(k) == IF filenames # <<>> THEN filenames[1] ELSE ""

\* (i < filenames.size()) ? filenames[i] : "", for the k-th image
FilenameAt(k) == IF k <= Len(filenames) THEN filenames[k] ELSE ""

TaskArgsShared(k) == <<images[k], FilenameAt(k), Len(images) - 1>>

\* what the k-th task's lambda captured: images[i], filename, i
TaskArgs(k) == <<images[k], FilenameAt(k), k - 1>>

\* "if (parallel && images.size() > 1)"
RunsParallel == parallel /\ Len(images) > 1

\* the call of detect_batch up to the end of the launch loop; a second call
\* repeats the input of the first and is kept apart from it in previous
detect_batch(batch_images, batch_filenames, batch_parallel) ==
    /\ \/ batch_pc = "idle"
       \/ /\ batch_pc = "returned"
          /\ previous = <<>>
          /\ batch_images = images
          /\ batch_filenames = filenames
          /\ batch_parallel # parallel
    /\ previous' = IF batch_pc = "returned"
                   THEN <<[images |-> images, filenames |-> filenames,
                           parallel |-> parallel, results |-> results]>>
                   ELSE previous
    /\ images' = batch_images
    /\ filenames' = batch_filenames
    /\ parallel' = batch_parallel
    /\ results' = <<>>
    /\ futures' = IF batch_parallel /\ Len(batch_images) > 1
                  THEN [k \in 1..Len(batch_images) |-> Future("start", <<>>)]
                  ELSE <<>>
    /\ batch_pc' = "running"
    /\ UNCHANGED <<cacheVars, utilVars, detVars, search_count>>

\* one iteration of the sequential loop
SequentialStep(elapsed) ==
    /\ batch_pc = "running"
    /\ ~RunsParallel
    /\ Len(results) < Len(images)
    /\ ~Diverges(images[Len(results) + 1], params[1])
    /\ \E outcome \in {RunDetection(1, images[Len(results) + 1],
                                     FilenameAt(Len(results) + 1),
                                     Len(results), elapsed)} :
          /\ processing_stats' = [processing_stats EXCEPT
                                    ![1] = StatsAfterCall(@, outcome)]
          /\ results' = Append(results, outcome.result)
    /\ UNCHANGED <<cacheVars, utilVars, simd_available, params, returned, calls_made,
                   failures_returned, reference, images, filenames, parallel,
                   futures, batch_pc, previous, search_count>>

\* where a task goes once its pipeline has produced the outcome
AfterPipeline(outcome) ==
    IF outcome.reached_update_stats THEN "total_load" ELSE "done"

\* the place in the finishing order of a task that moves to pc now
FinishedAs(pc) ==
    IF pc = "done"
    THEN Cardinality({j \in DOMAIN futures : futures[j].pc = "done"}) + 1
    ELSE 0

\* task k runs the pipeline as far as its first access to the statistics
TaskRun(k, elapsed) ==
    /\ batch_pc = "running"
    /\ k \in DOMAIN futures
    /\ futures[k].pc = "start"
    /\ ~Diverges(images[k], params[1])
    /\ \E a \in {TaskArgs(k)} :
       \E outcome \in {RunDetection(1, a[1], a[2], a[3], elapsed)} :
       \E pc \in {IF outcome.simd_counted THEN "simd_load"
                   ELSE AfterPipeline(outcome)} :
          futures' = [futures EXCEPT ![k] =
                        [pc |-> pc,
                         outcome |-> <<outcome>>,
                         loaded |-> 0,
                         reached_update_stats |-> outcome.reached_update_stats,
                         finished |-> FinishedAs(pc)]]
    /\ UNCHANGED <<cacheVars, utilVars, detVars, images, filenames, parallel, results, batch_pc,
                   previous, search_count>>

\* the counter a task at pc is about to load or store
CounterAt(k) ==
    IF futures[k].pc \in {"simd_load", "simd_store"}
    THEN "simd_operations_used"
    ELSE IF futures[k].pc \in {"total_load", "total_store"}
    THEN "total_images_processed"
    ELSE IF futures[k].outcome[1].result.success
    THEN "successful_detections"
    ELSE "failed_detections"

\* the load of one "++"
TaskLoad(k) ==
    /\ batch_pc = "running"
    /\ k \in DOMAIN futures
    /\ futures[k].pc \in {"simd_load", "total_load", "count_load"}
    /\ futures' = [futures EXCEPT
                     ![k].loaded = processing_stats[1][CounterAt(k)],
                     ![k].pc = IF @ = "simd_load" THEN "simd_store"
                               ELSE IF @ = "total_load" THEN "total_store"
                               ELSE "count_store"]
    /\ UNCHANGED <<cacheVars, utilVars, detVars, images, filenames, parallel, results, batch_pc,
                   previous, search_count>>

\* the store of one "++"
TaskStore(k) ==
    /\ batch_pc = "running"
    /\ k \in DOMAIN futures
    /\ futures[k].pc \in {"simd_store", "total_store", "count_store"}
    /\ processing_stats' = [processing_stats EXCEPT
                              ![1][CounterAt(k)] = futures[k].loaded + 1]
    /\ \E pc \in {IF futures[k].pc = "simd_store"
                   THEN AfterPipeline(futures[k].outcome[1])
                   ELSE IF futures[k].pc = "total_store" THEN "count_load"
                   ELSE "done"} :
          futures' = [futures EXCEPT ![k].loaded = 0,
                                     ![k].pc = pc,
                                     ![k].finished = FinishedAs(pc)]
    /\ UNCHANGED <<cacheVars, utilVars, simd_available, params, returned, calls_made,
                   failures_returned, reference, images, filenames, parallel,
                   results, batch_pc, previous, search_count>>

NextFinished ==
    IF \E k \in DOMAIN futures :
          futures[k].pc = "done" /\ futures[k].outcome # <<>>
    THEN CHOOSE k \in DOMAIN futures :
            /\ futures[k].pc = "done" /\ futures[k].outcome # <<>>
            /\ \A j \in DOMAIN futures :
                  (futures[j].pc = "done" /\ futures[j].outcome # <<>>) => j <= k
    ELSE Len(results) + 1

\* the future the collecting loop waits for: the next one in launch order
NextFuture == Len(results) + 1

\* results.push_back(future.get())
Collect ==
    /\ batch_pc = "running"
    /\ RunsParallel
    /\ Len(results) < Len(images)
    /\ futures[NextFuture].pc = "done"
    /\ futures[NextFuture].outcome # <<>>
    /\ results' = Append(results, futures[NextFuture].outcome[1].result)
    /\ futures' = [futures EXCEPT ![NextFuture].outcome = <<>>]
    /\ UNCHANGED <<cacheVars, utilVars, detVars, images, filenames, parallel, batch_pc, previous, search_count>>

\* return results;
BatchReturn ==
    /\ batch_pc = "running"
    /\ Len(results) = Len(images)
    /\ batch_pc' = "returned"
    /\ UNCHANGED <<cacheVars, utilVars, detVars, images, filenames, parallel, futures, results,
                   previous, search_count>>

BatchImages == {<<ImgGood>>, <<ImgGood, ImgGood>>, <<ImgNoCand, ImgGood>>,
                <<ImgGood, FaultImage(1)>>, <<FaultImage(8), ImgEdge>>}

BatchFilenames == {<<"a.bmp">>, <<"a.bmp", "b.bmp">>}

BatchInit == InitDetectors({DetectionParams}) /\ InitBatch /\ InitCache /\ InitUtil

BatchCall ==
    \E i \in BatchImages, f \in BatchFilenames, p \in BOOLEAN :
        detect_batch(i, f, p)

BatchSequential == \E elapsed \in Elapsed : SequentialStep(elapsed)

\* a step of the thread of task k
TaskStep(k) ==
    \/ \E elapsed \in Elapsed : TaskRun(k, elapsed)
    \/ TaskLoad(k)
    \/ TaskStore(k)

BatchTask == \E k \in DOMAIN futures : TaskStep(k)

BatchNext == BatchCall \/ BatchSequential \/ BatchTask \/ Collect \/ BatchReturn

SpecBatch == BatchInit /\ [][BatchNext]_vars

\* ------------------------------------- detect_batch, every thread scheduled
\* The calling thread (0) or the thread of task k enters the grid loops of a
\* search that never leaves them: the first turn starts with "int count = 0".
Entered(w) ==
    [v \in DOMAIN search_count \cup {w} |-> IF v = w THEN 0 ELSE search_count[v]]

TaskSearch(k) ==
    /\ batch_pc = "running"
    /\ k \in DOMAIN futures
    /\ futures[k].pc = "start"
    /\ Diverges(images[k], params[1])
    /\ futures' = [futures EXCEPT ![k].pc = "core_detection"]
    /\ search_count' = Entered(k)
    /\ UNCHANGED <<cacheVars, utilVars, detVars, images, filenames, parallel, results,
                   batch_pc, previous>>

\* the same on the calling thread, in the sequential loop
SequentialSearch ==
    /\ batch_pc = "running"
    /\ ~RunsParallel
    /\ Len(results) < Len(images)
    /\ Diverges(images[Len(results) + 1], params[1])
    /\ batch_pc' = "core_detection"
    /\ search_count' = Entered(0)
    /\ UNCHANGED <<cacheVars, utilVars, detVars, images, filenames, parallel, futures,
                   results, previous>>

\* half a turn of the inner grid loop of thread w: the one sample of the
\* window (dy = dx = 0) is counted, "count++"; then no candidate is
\* emitted, "x += step" leaves x where it is, and the next turn starts
\* with "int count = 0"
SearchTurn(w) ==
    /\ w \in DOMAIN search_count
    /\ search_count' = [search_count EXCEPT ![w] = IF @ = 0 THEN 1 ELSE 0]
    /\ UNCHANGED <<cacheVars, utilVars, detVars, images, filenames, parallel, futures,
                   results, batch_pc, previous>>

\* the configurations of the batch detector: the default one and one with
\* the smallest positive block size
FairParams == {DetectionParams, [DetectionParams EXCEPT !.block_size = 1]}

FairImages == {<<ImgGood>>, <<ImgGood, ImgNoCand>>, <<ImgEmpty, ImgGood>>}

\* the longest batch
FairPositions == UNION {DOMAIN i : i \in FairImages}

FairInit == InitDetectors(FairParams) /\ simd_available /\ InitBatch /\ InitCache /\ InitUtil

FairCall ==
    \E i \in FairImages, f \in BatchFilenames, p \in BOOLEAN :
        detect_batch(i, f, p)

FairSearch == SequentialSearch \/ \E k \in DOMAIN futures : TaskSearch(k)

FairTurn == \E w \in DOMAIN search_count : SearchTurn(w)

FairNext ==
    \/ FairCall \/ BatchSequential \/ BatchTask \/ Collect \/ BatchReturn
    \/ FairSearch \/ FairTurn

\* std::launch::async runs each task on a thread of its own, and the
\* operating system schedules every thread that can run: the thread of each
\* task and the calling thread, which runs the loops and the return
Fairness ==
    /\ \A k \in FairPositions :
          WF_vars(TaskStep(k) \/ TaskSearch(k) \/ SearchTurn(k))
    /\ WF_vars(BatchSequential \/ SequentialSearch \/ SearchTurn(0))
    /\ WF_vars(Collect)
    /\ WF_vars(BatchReturn)

SpecBatchFair == FairInit /\ [][FairNext]_vars /\ Fairness

\* ------------------------------------------------------------ FileManager
\* the buffers some cv::Mat header points to
LiveIds(cache, ld) ==
    ({cache[k].image.data : k \in DOMAIN cache}
        \cup {ld[t].image.data : t \in Threads}
        \cup {ld[t].result.data : t \in Threads}
        \cup {batch_load.images[i].data : i \in DOMAIN batch_load.images}) \ {0}

\* the buffer the next allocation returns: one no header points to
FreshId ==
    CHOOSE i \in 1..(Cardinality(LiveIds(image_cache, loads)) + 1) :
        i \notin LiveIds(image_cache, loads)

\* the buffers after a step: a buffer lives as long as a header points to it
Kept(cache, ld, fresh, pixels) ==
    [i \in LiveIds(cache, ld) |-> IF i = fresh THEN pixels ELSE buffers[i]]

\* a lookup that consults the cache whatever use_cache says
LookupAlways(use_cache, cache, key) == find(cache, key)

\* "if (use_cache) { ... image_cache.find(normalized_path) ... }"
Lookup(use_cache, cache, key) == use_cache /\ find(cache, key)

\* a header that points to the buffer of the image it was copied from
share(image, fresh) == image

\* cv::Mat::clone: a header with a buffer of its own
clone(image, fresh) == [image EXCEPT !.data = fresh]

\* an emptiness test that passes every image
IsEmptyNever(file) == FALSE

\* cv::Mat::empty of what imread decoded
IsEmpty(file) == file.rows = 0

\* the bytes the entries of a map occupy
RECURSIVE Occupied(_)
Occupied(cache) ==
    IF DOMAIN cache = {} THEN 0
    ELSE LET k == CHOOSE j \in DOMAIN cache : TRUE
         IN cache[k].memory_size + Occupied(Erase(cache, k))

\* the bytes the decoded images of a set of keys occupy
Footprint(keys) ==
    Occupied([k \in keys |->
                ImageCache(NoMat, k, calculate_image_memory_size(imread(k)), 0)])

Accessed(t, holder) == [by |-> t, holder |-> holder]

\* load_image up to the decoded image: with use_cache the lookup runs under
\* a lock_guard of its own and a hit returns; otherwise cv::imread runs
\* outside the mutex, a failed decode returns cv::Mat(), and a decode
\* without use_cache returns the image.  Each reading of
\* steady_clock::now() under the mutex is later than the reading before it.
load_image(t, filepath, use_cache) ==
    /\ loads[t].pc = "idle"
    /\ history.loads_made < MaxLoads
    /\ use_cache => cache_mutex = 0
    /\ \E key \in {normalize_path(filepath)} : \E file \in {imread(key)} :
         LET hit == Lookup(use_cache, image_cache, key)
             failed == ~hit /\ IsEmpty(file)
             repeat == /\ use_cache
                       /\ key \in history.loaded
                       /\ Footprint(history.loaded)
                             <= max_cache_bytes(max_cache_size_mb)
             image == GrayMat(file.rows, file.cols, FreshId)
         IN /\ image_cache' = IF hit
                              THEN [image_cache EXCEPT
                                      ![key].last_accessed = clock + 1]
                              ELSE image_cache
            /\ clock' = IF hit THEN clock + 1 ELSE clock
            /\ cache_hits' = IF hit THEN cache_hits + 1 ELSE cache_hits
            /\ cache_misses' = IF use_cache /\ ~hit THEN cache_misses + 1
                               ELSE cache_misses
            /\ loads' = [loads EXCEPT ![t] =
                  IF hit
                  THEN Load("idle", filepath, use_cache, key, NoMat, 0,
                            clone(image_cache[key].image, FreshId), "hit",
                            repeat)
                  ELSE IF failed
                  THEN Load("idle", filepath, use_cache, key, NoMat, 0,
                            NoMat, "failed", repeat)
                  ELSE IF use_cache
                  THEN Load("insert", filepath, use_cache, key, image, 0,
                            NoMat, "none", repeat)
                  ELSE Load("idle", filepath, use_cache, key, NoMat, 0,
                            image, "uncached", repeat)]
            /\ buffers' = Kept(image_cache', loads',
                               IF failed THEN 0 ELSE FreshId,
                               IF hit THEN buffers[image_cache[key].image.data]
                               ELSE file.pixels)
            /\ access' = IF use_cache THEN Accessed(t, t) ELSE access
            /\ history' = [history EXCEPT
                             !.loads_made = @ + 1,
                             !.loaded = IF hit THEN @ \cup {key} ELSE @,
                             !.decoded_misses =
                                 IF use_cache /\ ~hit /\ ~failed
                                 THEN @ + 1 ELSE @]
    /\ UNCHANGED <<cache_mutex, max_cache_size_mb, current_cache_size, detVars,
                   batchVars, utilVars>>

\* the insertion under the second lock_guard, up to the first statement of
\* cleanup_cache_if_needed, which reads the budget
LoadInsert(t) ==
    /\ loads[t].pc = "insert"
    /\ cache_mutex = 0
    /\ \E size \in {calculate_image_memory_size(loads[t].image)} :
         /\ cache_mutex' = t
         /\ clock' = clock + 1
         /\ current_cache_size' = current_cache_size + size
         /\ image_cache' =
               Put(image_cache, loads[t].normalized_path,
                   ImageCache(clone(loads[t].image, FreshId),
                              loads[t].normalized_path, size, clock + 1))
         /\ loads' = [loads EXCEPT
                        ![t].pc = "cleanup",
                        ![t].max_cache_bytes =
                            max_cache_bytes(max_cache_size_mb)]
         /\ buffers' = Kept(image_cache', loads', FreshId,
                            buffers[loads[t].image.data])
         /\ access' = Accessed(t, t)
    /\ UNCHANGED <<max_cache_size_mb, cache_hits, cache_misses, history,
                   detVars, batchVars, batch_load, utilVars>>

\* one turn of the loop of cleanup_cache_if_needed
remove_oldest_cache_entry(t) ==
    /\ loads[t].pc = "cleanup"
    /\ CleanupNeeded(current_cache_size, loads[t].max_cache_bytes,
                     DOMAIN image_cache)
    /\ \E oldest \in OldestEntries(image_cache) :
         /\ current_cache_size' =
               current_cache_size - image_cache[oldest].memory_size
         /\ image_cache' = Erase(image_cache, oldest)
    /\ buffers' = Kept(image_cache', loads, 0, "")
    /\ access' = Accessed(t, cache_mutex)
    /\ UNCHANGED <<cache_mutex, max_cache_size_mb, cache_hits, cache_misses,
                   clock, loads, history, detVars, batchVars, batch_load, utilVars>>

\* the loop of cleanup_cache_if_needed ends, the lock_guard is released and
\* load_image returns the decoded image
LoadReturn(t) ==
    /\ loads[t].pc = "cleanup"
    /\ ~CleanupNeeded(current_cache_size, loads[t].max_cache_bytes,
                      DOMAIN image_cache)
    /\ cache_mutex' = 0
    /\ loads' = [loads EXCEPT ![t].pc = "idle",
                              ![t].result = loads[t].image,
                              ![t].image = NoMat,
                              ![t].outcome = "inserted"]
    /\ history' = [history EXCEPT
                     !.loaded = @ \cup {loads[t].normalized_path}]
    /\ access' = Accessed(t, cache_mutex)
    /\ UNCHANGED <<image_cache, max_cache_size_mb, current_cache_size,
                   cache_hits, cache_misses, buffers, clock, detVars,
                   batchVars, batch_load, utilVars>>

\* FileManager::set_cache_size_mb: the assignment and nothing else.  It is
\* called between loads: the budget is not changed while a load runs.
set_cache_size_mb(size_mb) ==
    /\ \A t \in Threads : loads[t].pc = "idle"
    /\ history.settings_made < MaxSettings
    /\ size_mb # max_cache_size_mb
    /\ max_cache_size_mb' = size_mb
    /\ history' = [history EXCEPT
                     !.settings_made = @ + 1,
                     !.loaded = {},
                     !.shrunk = max_cache_bytes(size_mb) < Occupied(image_cache)]
    /\ UNCHANGED <<image_cache, cache_mutex, current_cache_size, cache_hits,
                   cache_misses, buffers, clock, loads, access, detVars,
                   batchVars, batch_load, utilVars>>

\* FileManager::get_current_cache_usage_mb: reads the counter, takes no lock
get_current_cache_usage_mb(t) ==
    /\ loads[t].pc = "idle"
    /\ access # Accessed(t, cache_mutex)
    /\ access' = Accessed(t, cache_mutex)
    /\ UNCHANGED <<image_cache, cache_mutex, max_cache_size_mb,
                   current_cache_size, cache_hits, cache_misses, buffers, clock,
                   loads, history, detVars, batchVars, batch_load, utilVars>>

\* FileManager::clear_cache
clear_cache(t) ==
    /\ loads[t].pc = "idle"
    /\ cache_mutex = 0
    /\ history.settings_made < MaxSettings
    /\ image_cache # EmptyCache
    /\ image_cache' = EmptyCache
    /\ current_cache_size' = 0
    /\ buffers' = Kept(image_cache', loads, 0, "")
    /\ access' = Accessed(t, t)
    /\ history' = [history EXCEPT !.settings_made = @ + 1, !.loaded = {}]
    /\ UNCHANGED <<cache_mutex, max_cache_size_mb, cache_hits, cache_misses,
                   clock, loads, detVars, batchVars, batch_load, utilVars>>

\* FileManager::remove_from_cache
remove_from_cache(t, filepath) ==
    /\ loads[t].pc = "idle"
    /\ cache_mutex = 0
    /\ history.settings_made < MaxSettings
    /\ \E key \in {normalize_path(filepath)} :
         /\ current_cache_size' =
               IF find(image_cache, key)
               THEN current_cache_size - image_cache[key].memory_size
               ELSE current_cache_size
         /\ image_cache' = IF find(image_cache, key)
                           THEN Erase(image_cache, key) ELSE image_cache
         /\ history' = [history EXCEPT !.settings_made = @ + 1,
                                       !.loaded = @ \ {key}]
    /\ buffers' = Kept(image_cache', loads, 0, "")
    /\ access' = Accessed(t, t)
    /\ UNCHANGED <<cache_mutex, max_cache_size_mb, cache_hits, cache_misses,
                   clock, loads, detVars, batchVars, batch_load, utilVars>>

\* the caller of load_image writes into the image it was given
CallerWrite(t) ==
    /\ loads[t].pc = "idle"
    /\ loads[t].result.data # 0
    /\ buffers[loads[t].result.data] # "written"
    /\ buffers' = [buffers EXCEPT ![loads[t].result.data] = "written"]
    /\ UNCHANGED <<image_cache, cache_mutex, max_cache_size_mb,
                   current_cache_size, cache_hits, cache_misses, clock, loads,
                   access, history, detVars, batchVars, batch_load, utilVars>>

\* the calls made: two spellings of a.bmp and b.bmp with the cache, a file
\* that does not decode, and b.bmp without the cache
LoadArgs ==
    {<<Path(FALSE, <<".", "a.bmp">>), TRUE>>,
     <<Path(TRUE, <<"work", "a.bmp">>), TRUE>>,
     <<Path(FALSE, <<"b.bmp">>), TRUE>>,
     <<Path(FALSE, <<"bad.bmp">>), TRUE>>,
     <<Path(FALSE, <<"b.bmp">>), FALSE>>,
     <<Path(FALSE, <<"bad.bmp">>), FALSE>>}

CacheSizes == {1, 2}

CacheInit ==
    /\ InitDetectors({DetectionParams})
    /\ simd_available
    /\ InitBatch
    /\ InitCache
    /\ InitUtil

CacheLoad ==
    /\ \E t \in Threads, a \in LoadArgs : load_image(t, a[1], a[2])
    /\ UNCHANGED batch_load

CacheInsert == \E t \in Threads : LoadInsert(t)

CacheEvict == \E t \in Threads : remove_oldest_cache_entry(t)

CacheReturn == \E t \in Threads : LoadReturn(t)

CacheResize == \E size_mb \in CacheSizes : set_cache_size_mb(size_mb)

CacheUsage == \E t \in Threads : get_current_cache_usage_mb(t)

CacheClear == \E t \in Threads : clear_cache(t)

CacheWrite == \E t \in Threads : CallerWrite(t)

CacheRemove ==
    \E t \in Threads, a \in LoadArgs : remove_from_cache(t, a[1])

CacheNext ==
    \/ CacheLoad \/ CacheInsert \/ CacheEvict \/ CacheReturn
    \/ CacheResize \/ CacheUsage \/ CacheClear \/ CacheWrite \/ CacheRemove

SpecCache == CacheInit /\ [][CacheNext]_vars

\* ------------------------------------------------------ load_images_batch
\* a flag that is pushed whatever the image is
push_true(flags, image) == Append(flags, TRUE)

\* success_flags->push_back(!image.empty())
push_flag(flags, image) == Append(flags, ~IsEmpty(image))

\* load_images_batch up to its loop: the images vector is empty and a
\* supplied success_flags vector is cleared
load_images_batch(filepaths, use_cache, given) ==
    /\ batch_load.pc = "idle"
    /\ loads[1].pc = "idle"
    /\ batch_load' = BatchLoad("loop", filepaths, use_cache, given, <<>>,
                               IF given THEN <<>> ELSE batch_load.success_flags)
    /\ UNCHANGED <<image_cache, cache_mutex, max_cache_size_mb,
                   current_cache_size, cache_hits, cache_misses, buffers, clock,
                   loads, access, history, detVars, batchVars, utilVars>>

\* one turn of the loop: the call of load_image for the next path
BatchLoadImage ==
    /\ batch_load.pc = "loop"
    /\ Len(batch_load.images) < Len(batch_load.filepaths)
    /\ load_image(1, batch_load.filepaths[Len(batch_load.images) + 1],
                  batch_load.use_cache)
    /\ batch_load' = [batch_load EXCEPT !.pc = "push"]

\* the rest of the turn, once load_image has returned: the two push_backs
BatchLoadPush ==
    /\ batch_load.pc = "push"
    /\ loads[1].pc = "idle"
    /\ batch_load' = [batch_load EXCEPT
                        !.pc = "loop",
                        !.images = Append(@, loads[1].result),
                        !.success_flags =
                            IF batch_load.given
                            THEN push_flag(@, loads[1].result) ELSE @]
    /\ UNCHANGED <<image_cache, cache_mutex, max_cache_size_mb,
                   current_cache_size, cache_hits, cache_misses, buffers, clock,
                   loads, access, history, detVars, batchVars, utilVars>>

\* return images;
BatchLoadReturn ==
    /\ batch_load.pc = "loop"
    /\ Len(batch_load.images) = Len(batch_load.filepaths)
    /\ batch_load' = [batch_load EXCEPT !.pc = "returned"]
    /\ UNCHANGED <<image_cache, cache_mutex, max_cache_size_mb,
                   current_cache_size, cache_hits, cache_misses, buffers, clock,
                   loads, access, history, detVars, batchVars, utilVars>>

\* the path lists loaded as a batch: a file that does not decode first, in
\* the middle and alone, a path twice, and no path at all
BatchPaths ==
    {<<Path(FALSE, <<"a.bmp">>), Path(FALSE, <<"bad.bmp">>), Path(FALSE, <<"b.bmp">>)>>,
     <<Path(FALSE, <<"bad.bmp">>), Path(FALSE, <<"b.bmp">>)>>,
     <<Path(FALSE, <<"b.bmp">>), Path(FALSE, <<"b.bmp">>)>>,
     <<Path(FALSE, <<"bad.bmp">>)>>,
     <<>>}

\* ------------------------- a batch load on thread 1, single loads on thread 2
LoaderInit == CacheInit

LoaderCall ==
    \E filepaths \in BatchPaths, use_cache \in BOOLEAN, given \in BOOLEAN :
        load_images_batch(filepaths, use_cache, given)

\* a load_image call of thread 2 while the batch of thread 1 runs
LoaderOther ==
    /\ batch_load.pc # "idle"
    /\ \E a \in LoadArgs : load_image(2, a[1], a[2])
    /\ UNCHANGED batch_load

LoaderNext ==
    \/ LoaderCall \/ BatchLoadImage \/ BatchLoadPush \/ BatchLoadReturn
    \/ LoaderOther \/ CacheInsert \/ CacheEvict \/ CacheReturn \/ CacheResize

SpecLoader == LoaderInit /\ [][LoaderNext]_vars

\* ------------------------------------------------- claims on single calls
\* the non-empty, single-channel, at least 101x101 images
ValidImage(image) ==
    /\ ~image.empty
    /\ image.channels = 1
    /\ image.rows >= MIN_DIM
    /\ image.cols >= MIN_DIM

\* nearest in-bounds index of the interval [lo, hi]
Nearest(v, lo, hi) == IF v < lo THEN lo ELSE IF v > hi THEN hi ELSE v

\* the pixels the edge-replicating window around (cx, cy) holds
ReplicatedWindow(image, cx, cy, pixels) ==
    \A y \in 0..100 : \A x \in 0..100 :
        pixels[y][x] = PixelAt(image, Nearest(cy - 50 + y, 0, image.rows - 1),
                                      Nearest(cx - 50 + x, 0, image.cols - 1))

\* C1: every result returned for a non-empty single-channel image of at least
\* 101x101 is either a success with exactly one core point whose confidence is
\* at least min_confidence and above zero and with the ROI filled in, or a
\* failure with a non-empty error message.
C1_ValidImageResult ==
    \A i \in DOMAIN returned :
        LET call == returned[i]
            r == call.result
        IN ValidImage(call.image) =>
              \/ /\ r.success
                 /\ Len(r.core_points) = 1
                 /\ r.core_points[1].confidence >= call.params.min_confidence
                 /\ r.core_points[1].confidence > 0
                 /\ r.extracted_roi.pixels # ZeroPixels
              \/ /\ ~r.success
                 /\ r.error_message # ""

\* C2: on every detector, total_images_processed equals the number of
\* detect_core_point calls made since the last reset.
C2_TotalCountsEveryCall ==
    \A d \in Detectors :
        processing_stats[d].total_images_processed = calls_made[d]

\* C3: on every detector, failed_detections equals the number of calls since
\* the last reset that returned success = false.
C3_FailuresCounted ==
    \A d \in Detectors :
        processing_stats[d].failed_detections = failures_returned[d]

\* C4: a call in which a pipeline stage raised returns success = false with a
\* non-empty error message, and no returned result has success = true together
\* with a non-empty error message.
C4_ErrorsBecomeFailures ==
    \A i \in DOMAIN returned :
        LET call == returned[i]
            r == call.result
        IN /\ (/\ call.stages # <<>>
               /\ call.stages[Len(call.stages)] = call.image.fault)
              => (~r.success /\ r.error_message # "")
           /\ ~(r.success /\ r.error_message # "")

\* C5: the input checks run in the order empty, single-channel, size; the first
\* one that fails gives the result (success = false and that check's message),
\* and no pipeline stage runs.
C5_InputChecksInOrder ==
    \A i \in DOMAIN returned :
        LET call == returned[i]
            image == call.image
            r == call.result
            Refused(message) == /\ ~r.success
                                /\ r.error_message = message
                                /\ call.stages = <<>>
        IN /\ image.empty => Refused("Input image is empty")
           /\ (~image.empty /\ image.channels # 1)
                 => Refused("Input image must be grayscale")
           /\ (/\ ~image.empty
               /\ image.channels = 1
               /\ (image.rows < 101 \/ image.cols < 101))
                 => Refused("Input image too small (minimum 101x101)")

\* an image failing all three checks was refused as empty, and one failing the
\* last two as not grayscale
C5_Witness ==
    /\ returned # <<>>
    /\ \/ /\ returned[1].image.empty
          /\ returned[1].image.channels # 1
          /\ returned[1].image.rows < 101
          /\ returned[1].result.error_message = "Input image is empty"
       \/ /\ ~returned[1].image.empty
          /\ returned[1].image.channels # 1
          /\ returned[1].image.rows < 101
          /\ returned[1].result.error_message = "Input image must be grayscale"

\* C6: after a successful detection with core point (cx, cy), ROI pixel [y][x]
\* is the input image's pixel at row clamp(cy - 50 + y, 0, rows - 1) and column
\* clamp(cx - 50 + x, 0, cols - 1), and pixel [50][50] is the pixel at the core
\* point.
C6_RoiReplicatesEdges ==
    \A i \in DOMAIN returned :
        LET call == returned[i]
            r == call.result
        IN r.success =>
              /\ ReplicatedWindow(call.image, r.core_points[1].x,
                                  r.core_points[1].y, r.extracted_roi.pixels)
              /\ r.extracted_roi.pixels[50][50] =
                    PixelAt(call.image, r.core_points[1].y, r.core_points[1].x)

\* a successful detection whose window reaches past the left and top edges
C6_Witness ==
    /\ returned # <<>>
    /\ returned[1].result.success
    /\ returned[1].result.core_points[1].x < 50
    /\ returned[1].result.core_points[1].y < 50
    /\ returned[1].result.extracted_roi.pixels[0][0] =
          PixelAt(returned[1].image, 0, 0)

\* --------------------------------------------------- claims on repeated calls
Confidences(core_points) ==
    [k \in DOMAIN core_points |-> core_points[k].confidence]

WithoutTime(result) == [result EXCEPT !.processing_time_us = 0]

\* C8: a returned batch holds one result per image, and result i is what
\* detect_core_point returns for image i, its filename and its index, whatever
\* the order in which the tasks finished.
C8_OneResultPerImageInOrder ==
    batch_pc = "returned" =>
       /\ Len(results) = Len(images)
       /\ \A k \in 1..Len(images) :
             \E elapsed \in Elapsed :
                results[k] = detect_core_point(images[k], FilenameAt(k), k - 1,
                                               params[1], simd_available,
                                               elapsed).result

\* a parallel batch has returned whose second task finished first
C8_Witness ==
    /\ batch_pc = "returned"
    /\ RunsParallel
    /\ futures[2].finished = 1
    /\ futures[1].finished = 2
    /\ results[1] # results[2]

\* C9: for the same images, filenames and configuration, the parallel and the
\* sequential detect_batch return lists equal in length and, position by
\* position, in every field but the processing time.
C9_ParallelEqualsSequential ==
    (batch_pc = "returned" /\ previous # <<>>) =>
       /\ Len(results) = Len(previous[1].results)
       /\ \A k \in 1..Len(results) :
             WithoutTime(results[k]) = WithoutTime(previous[1].results[k])

\* the same two images went through both ways, one was detected, and the two
\* runs took different times
C9_Witness ==
    /\ batch_pc = "returned"
    /\ previous # <<>>
    /\ Len(images) = 2
    /\ previous[1].parallel # parallel
    /\ \E k \in 1..2 : results[k].success
    /\ \E k \in 1..2 :
          results[k].processing_time_us
             # previous[1].results[k].processing_time_us

\* C10: when the tasks of a parallel batch have run, total_images_processed
\* and successful_detections + failed_detections have each risen by the number
\* of tasks that reached update_stats.
C10_NoLostUpdate ==
    (batch_pc = "returned" /\ RunsParallel /\ previous = <<>>) =>
       LET reached == Cardinality({k \in DOMAIN futures :
                                      futures[k].reached_update_stats})
       IN /\ processing_stats[1].total_images_processed = reached
          /\ processing_stats[1].successful_detections
                + processing_stats[1].failed_detections = reached

\* ------------------------------------------------ claims on the image cache
\* the configured budget in bytes
Budget == max_cache_size_mb * BYTES_PER_MB

\* the thread whose load_image call begins in this step looks up key
Begins(t, key) ==
    /\ loads[t].pc = "idle"
    /\ history'.loads_made = history.loads_made + 1
    /\ loads'[t] # loads[t]
    /\ loads'[t].normalized_path = key

\* thread t is inside cleanup_cache_if_needed before and after the step
InCleanup(t) == loads[t].pc = "cleanup" /\ loads'[t].pc = "cleanup"

\* C11: every read and write of the entry map and of the byte counter by a
\* public operation is made by a thread that holds cache_mutex.
C11_AccessUnderMutex == access.by # 0 => access.holder = access.by

C13_ShrunkBudgetHolds == history.shrunk => Occupied(image_cache) <= Budget

\* C14: an evicted entry has the smallest last-access time of the entries
\* then present, and an insertion or a hit gives its entry a last-access time
\* above that of every other entry.
C14_EvictsLeastRecent ==
    [][\A t \in Threads :
          /\ InCleanup(t)
             => \A gone \in DOMAIN image_cache \ DOMAIN image_cache' :
                   \A k \in DOMAIN image_cache :
                      image_cache[gone].last_accessed
                         <= image_cache[k].last_accessed
          /\ \A key \in DOMAIN image_cache' :
                ((Begins(t, key) /\ loads'[t].outcome = "hit")
                    \/ (loads[t].pc = "insert" /\ loads'[t].pc = "cleanup"
                          /\ loads[t].normalized_path = key))
                => \A k \in DOMAIN image_cache' \ {key} :
                      image_cache'[k].last_accessed
                         < image_cache'[key].last_accessed]_vars

\* the eviction loop has removed a loaded entry while the entry just
\* inserted, which is newer, is still there
C14_Witness ==
    \E t \in Threads :
       /\ loads[t].pc = "cleanup"
       /\ loads[t].normalized_path \in DOMAIN image_cache
       /\ \E k \in history.loaded : k \notin DOMAIN image_cache

\* C15: a caching load_image call whose normalized path is in the cache sets
\* the entry's last-access time to now, adds one to the hit counter, returns
\* a copy of the cached buffer and changes nothing else.
C15_HitChangesOnlyItsEntry ==
    [][\A t \in Threads : \A key \in DOMAIN image_cache :
          (Begins(t, key) /\ loads'[t].use_cache)
          => /\ loads'[t].pc = "idle"
             /\ DOMAIN image_cache' = DOMAIN image_cache
             /\ \A k \in DOMAIN image_cache \ {key} :
                   image_cache'[k] = image_cache[k]
             /\ image_cache'[key] =
                   [image_cache[key] EXCEPT !.last_accessed = clock']
             /\ clock' > clock
             /\ cache_hits' = cache_hits + 1
             /\ cache_misses' = cache_misses
             /\ current_cache_size' = current_cache_size
             /\ history'.decoded_misses = history.decoded_misses
             /\ loads'[t].result.rows = image_cache[key].image.rows
             /\ loads'[t].result.cols = image_cache[key].image.cols
             /\ loads'[t].result.data # image_cache[key].image.data
             /\ buffers'[loads'[t].result.data]
                   = buffers[image_cache[key].image.data]
             /\ \A k \in DOMAIN image_cache :
                   buffers'[image_cache[k].image.data]
                      = buffers[image_cache[k].image.data]]_vars

\* a call has hit one of two cached entries
C15_Witness ==
    \E t \in Threads :
       /\ loads[t].pc = "idle"
       /\ loads[t].outcome = "hit"
       /\ cache_hits > 0
       /\ loads[t].normalized_path \in DOMAIN image_cache
       /\ Cardinality(DOMAIN image_cache) = 2

\* C16: once the images were loaded with caching under a budget that holds
\* all of them, every further caching load of one of them is a hit.
C16_RepeatLoadsHit ==
    \A t \in Threads : loads[t].repeat => loads[t].outcome = "hit"

\* C17: a load_image call that misses and whose decode fails returns an empty
\* image and changes neither the entries, their buffers and last-access
\* times, nor the byte counter.
C17_FailedDecodeLeavesCache ==
    [][\A t \in Threads :
          LET key == loads'[t].normalized_path
          IN (/\ Begins(t, key)
              /\ ~(loads'[t].use_cache /\ key \in DOMAIN image_cache)
              /\ imread(key).rows = 0)
             => /\ loads'[t].pc = "idle"
                /\ loads'[t].result = NoMat
                /\ image_cache' = image_cache
                /\ current_cache_size' = current_cache_size
                /\ \A k \in DOMAIN image_cache :
                      buffers'[image_cache[k].image.data]
                         = buffers[image_cache[k].image.data]]_vars

\* a call for the file that does not decode has returned while the cache
\* held an entry
C17_Witness ==
    \E t \in Threads :
       /\ loads[t].pc = "idle"
       /\ loads[t].outcome = "failed"
       /\ loads[t].use_cache
       /\ loads[t].result = NoMat
       /\ DOMAIN image_cache # {}

\* C18: the miss counter is the number of load_image calls that missed the
\* cache and decoded successfully.
C18_MissesAreDecodedMisses ==
    (\A t \in Threads : loads[t].pc = "idle")
       => cache_misses = history.decoded_misses

\* C19: the buffer of a returned image is never the buffer of a cache entry,
\* so every entry keeps the pixels that were decoded for it whatever the
\* callers write, and every returned image keeps its buffer whatever is
\* evicted.
C19_ReturnedBufferIsOwn ==
    /\ \A t \in Threads : \A k \in DOMAIN image_cache :
          loads[t].result.data # image_cache[k].image.data
    /\ \A k \in DOMAIN image_cache :
          buffers[image_cache[k].image.data] = imread(k).pixels
    /\ \A t \in Threads :
          loads[t].result.data # 0 => loads[t].result.data \in DOMAIN buffers

\* a caller has written into the image a hit gave it and the entry is still
\* cached; another caller holds the image of an entry that is gone
C19_Witness ==
    /\ \E t \in Threads :
          /\ loads[t].outcome = "hit"
          /\ loads[t].normalized_path \in DOMAIN image_cache
          /\ buffers[loads[t].result.data] = "written"
    /\ \E t \in Threads :
          /\ loads[t].outcome = "inserted"
          /\ loads[t].pc = "idle"
          /\ loads[t].normalized_path \notin DOMAIN image_cache

\* C20: a relative and an absolute path of the same file map to the same
\* cache key, so the cache never holds two entries for one file.
C20_SameFileSameKey ==
    \A k1 \in DOMAIN image_cache : \A k2 \in DOMAIN image_cache :
       FileOf(k1) = FileOf(k2) => k1 = k2

\* ------------------------------------------------ claims on load_images_batch
\* the image is the decoded file of the path: its shape, and its pixels when
\* the file decodes
IsImageOf(image, filepath) ==
    \E file \in {imread(normalize_path(filepath))} :
        /\ image.rows = file.rows
        /\ image.cols = file.cols
        /\ IF IsEmpty(file) THEN image = NoMat
           ELSE buffers[image.data] = file.pixels

\* C21: load_images_batch returns one image per input path, in input order:
\* image i is the decoded file of path i, and the empty image when the file
\* does not decode, whatever the paths before it did; a supplied
\* success_flags vector is cleared first and then holds one flag per image
\* pushed, flag i being true exactly when image i is not empty; a call
\* without success_flags leaves the caller's vector alone.
C21_BatchLoadsEveryPath ==
    batch_load.pc # "idle" =>
        /\ Len(batch_load.images) <= Len(batch_load.filepaths)
        /\ batch_load.pc = "returned" =>
               Len(batch_load.images) = Len(batch_load.filepaths)
        /\ \A i \in DOMAIN batch_load.images :
               IsImageOf(batch_load.images[i], batch_load.filepaths[i])
        /\ IF batch_load.given
           THEN /\ Len(batch_load.success_flags) = Len(batch_load.images)
                /\ \A i \in DOMAIN batch_load.images :
                      batch_load.success_flags[i]
                          = ~IsEmpty(batch_load.images[i])
           ELSE batch_load.success_flags = StaleFlags

\* a returned batch of three paths whose second file does not decode
C21_Witness ==
    /\ batch_load.pc = "returned"
    /\ batch_load.given
    /\ Len(batch_load.filepaths) = 3
    /\ IsEmpty(batch_load.images[2])
    /\ ~IsEmpty(batch_load.images[3])
    /\ batch_load.success_flags = <<TRUE, FALSE, TRUE>>

\* ------------------------------------------- claims on the selected core point
\* C22: no call returns success = true with a core point closer than 50
\* pixels to an image edge: every core point of a successful result has
\* 50 <= x < width - 50 and 50 <= y < height - 50, whatever min_confidence
\* the detector is configured with.
C22_NoSuccessInMargin ==
    \A i \in DOMAIN returned :
        LET call == returned[i]
            r == call.result
        IN r.success =>
              \A j \in DOMAIN r.core_points :
                  /\ r.core_points[j].x >= 50
                  /\ r.core_points[j].x < call.image.cols - 50
                  /\ r.core_points[j].y >= 50
                  /\ r.core_points[j].y < call.image.rows - 50

\* candidate a comes before candidate b in row-major order of the search grid
ScansBefore(a, b) == a.y < b.y \/ (a.y = b.y /\ a.x < b.x)

\* C23: the core point of a successful result stands where a candidate of
\* maximum confidence stands, and every other candidate of that confidence
\* comes after it in scan order (y ascending, then x ascending).
C23_SelectsFirstMaximum ==
    \A i \in DOMAIN returned :
        LET call == returned[i]
            r == call.result
        IN r.success =>
              \E candidates \in {Candidates(call.image, call.params)} :
              \E k \in DOMAIN candidates :
                  /\ candidates[k].x = r.core_points[1].x
                  /\ candidates[k].y = r.core_points[1].y
                  /\ \A j \in DOMAIN candidates \ {k} :
                        \/ candidates[j].confidence < candidates[k].confidence
                        \/ /\ candidates[j].confidence = candidates[k].confidence
                           /\ ScansBefore(candidates[k], candidates[j])

\* a success on an image with two candidates of the same confidence
C23_Witness ==
    /\ returned # <<>>
    /\ returned[1].result.success
    /\ \E candidates \in {Candidates(returned[1].image, returned[1].params)} :
          /\ Len(candidates) = 2
          /\ candidates[1].confidence = candidates[2].confidence
          /\ candidates[1].x # candidates[2].x
          /\ returned[1].result.core_points[1].x = candidates[1].x

\* -------------------------------------------------- claims on the parameters
\* C24: at every detect_core_point call the detector's gaussian_kernel_size
\* and sobel_kernel_size are odd, after construction and after any sequence
\* of operations on the detector.
C24_KernelSizesOdd ==
    \A i \in DOMAIN returned :
        /\ returned[i].params.gaussian_kernel_size % 2 = 1
        /\ returned[i].params.sobel_kernel_size % 2 = 1

\* C25: the confidence of every core point of a returned result lies in
\* [0, 1] (0 to 1000000 millionths).
C25_ConfidenceInUnitInterval ==
    \A i \in DOMAIN returned :
        \A j \in DOMAIN returned[i].result.core_points :
            /\ returned[i].result.core_points[j].confidence >= 0
            /\ returned[i].result.core_points[j].confidence <= 1000000

\* ------------------------------------------------- claims on detect_batch
\* C26: in detect_batch, parallel or sequential, the ROI of every successful
\* result at position i (counted from 0) carries file_index = i and the
\* filename filenames[i], or the empty string when the filenames list has no
\* such position.
C26_RoiCarriesPosition ==
    \A k \in DOMAIN results :
        results[k].success =>
            /\ results[k].extracted_roi.file_index = k - 1
            /\ results[k].extracted_roi.filename =
                  IF k - 1 < Len(filenames) THEN filenames[k] ELSE ""

\* two images and one filename, run in both modes: the second result is a
\* success without a filename in both
C26_Witness ==
    /\ batch_pc = "returned"
    /\ previous # <<>>
    /\ previous[1].parallel # parallel
    /\ Len(images) = 2
    /\ Len(filenames) = 1
    /\ results[1].success
    /\ results[1].extracted_roi.filename = "a.bmp"
    /\ results[2].success
    /\ results[2].extracted_roi.filename = ""
    /\ results[2].extracted_roi.file_index = 1
    /\ previous[1].results[2].success
    /\ previous[1].results[2].extracted_roi.filename = ""

\* -------------------------------------------- claims on the smallest image
\* C27: every successful result for an image of exactly 101x101 has its core
\* point at the centre (50, 50), and its ROI is the input image, pixel by
\* pixel.
C27_MinimalImageCentred ==
    \A i \in DOMAIN returned :
        LET call == returned[i]
            r == call.result
        IN (call.image.rows = 101 /\ call.image.cols = 101 /\ r.success) =>
              /\ r.core_points[1].x = 50
              /\ r.core_points[1].y = 50
              /\ \A y \in 0..100 : \A x \in 0..100 :
                    r.extracted_roi.pixels[y][x] = PixelAt(call.image, y, x)

\* C28: detect_batch always terminates: every call that has started, parallel
\* or sequential, returns, when every task's thread and the calling thread
\* are scheduled.
C28_BatchTerminates == (batch_pc = "running") ~> (batch_pc = "returned")

\* ------------------------------------------------ claims on the gradient path
\* the result of the same call on a detector that differs in use_simd only
OtherPath(call) ==
    detect_core_point(call.image, call.filename, call.file_index,
                      [call.params EXCEPT !.use_simd = ~@], simd_available,
                      call.result.processing_time_us).result

\* C29: the result of detect_core_point (success flag, message, core points,
\* ROI, quality) is the same with use_simd = true and use_simd = false, for
\* the same image and otherwise equal parameters.
C29_SimdEqualsScalar ==
    \A i \in DOMAIN returned : OtherPath(returned[i]) = returned[i].result

\* a success computed on the SIMD gradient path
C29_Witness ==
    /\ returned # <<>>
    /\ simd_available
    /\ returned[1].params.use_simd
    /\ returned[1].result.success
    /\ processing_stats[1].simd_operations_used > 0

\* ------------------------------------------------ claims on the rejections
\* the selected candidate of a call, with its validated confidence
BestOf(call) ==
    LET selected == select_best_core_point(Candidates(call.image, call.params))
    IN [selected EXCEPT !.confidence = validate_core_point(call.image, selected)]

\* the call was refused with this message after exactly these stages, and
\* its result holds no core point and no ROI
RefusedAt(call, message, stages) ==
    /\ ~call.result.success
    /\ call.result.error_message = message
    /\ call.stages = stages
    /\ call.result.core_points = <<>>
    /\ call.result.extracted_roi = ROI

\* C30: in a call in which no stage raises, the rejection points are
\* evaluated in the order input shape, quality below 0.2, no candidates,
\* confidence below the minimum, and the first that fails gives the result
\* and its message; a quality rejection comes after the preprocess and
\* quality stages only, before the orientation field, the ridge frequency,
\* the candidate search and any ROI extraction; no result with
\* success = false holds a core point.
C30_RejectionsInOrder ==
    \A i \in DOMAIN returned :
        LET call == returned[i]
            image == call.image
            shape == \/ image.empty \/ image.channels # 1
                     \/ image.rows < 101 \/ image.cols < 101
            quality == image.quality < 200
            none == Candidates(image, call.params) = <<>>
        IN /\ ~call.result.success => call.result.core_points = <<>>
           /\ image.fault = "none" =>
                 /\ shape =>
                       /\ call.stages = <<>>
                       /\ ~call.result.success
                       /\ call.result.core_points = <<>>
                       /\ call.result.error_message \in
                             {"Input image is empty",
                              "Input image must be grayscale",
                              "Input image too small (minimum 101x101)"}
                 /\ (~shape /\ quality) =>
                       RefusedAt(call, "Image quality too low for processing",
                                 <<"preprocess", "quality_assessment">>)
                 /\ (~shape /\ ~quality /\ none) =>
                       RefusedAt(call, "No core point candidates found",
                                 <<"preprocess", "quality_assessment",
                                   "orientation_field", "ridge_frequency",
                                   "core_detection">>)
                 /\ (~shape /\ ~quality /\ ~none) =>
                       \E best \in {BestOf(call)} :
                          IF best.confidence < call.params.min_confidence
                          THEN RefusedAt(call,
                                         "Core point confidence too low: "
                                            \o to_string(best.confidence),
                                         <<"preprocess", "quality_assessment",
                                           "orientation_field", "ridge_frequency",
                                           "core_detection", "core_validation">>)
                          ELSE call.result.success

\* an image below the quality gate that has no candidate either was refused
\* for its quality
C30_Witness ==
    /\ returned # <<>>
    /\ returned[1].image.quality < 200
    /\ returned[1].image.spots = NoSpots
    /\ returned[1].result.error_message = "Image quality too low for processing"
    /\ returned[1].stages = <<"preprocess", "quality_assessment">>

\* ------------------------------------------------ claims on the validation
\* C31: the core point of a successful result has the x and y of the
\* candidate that selection chose, which lie on the search grid (block_size
\* plus a multiple of the stride block_size / 2); validation changes the
\* confidence only.
C31_ValidationKeepsCoordinates ==
    \A i \in DOMAIN returned :
        LET call == returned[i]
            r == call.result
            stride == call.params.block_size \div 2
        IN r.success =>
              \E chosen \in {select_best_core_point(
                                Candidates(call.image, call.params))} :
                  /\ r.core_points[1].x = chosen.x
                  /\ r.core_points[1].y = chosen.y
                  /\ (chosen.x - call.params.block_size) % stride = 0
                  /\ (chosen.y - call.params.block_size) % stride = 0

\* a success whose confidence validation rescaled
C31_Witness ==
    /\ returned # <<>>
    /\ returned[1].result.success
    /\ \E chosen \in {select_best_core_point(
                          Candidates(returned[1].image, returned[1].params))} :
          /\ returned[1].result.core_points[1].confidence # chosen.confidence
          /\ returned[1].result.core_points[1].confidence > 0
          /\ returned[1].result.core_points[1].x = chosen.x

\* C36: every candidate that passes the 50-pixel margin check has its 21x21
\* window inside the image, so the branch that halves the confidence is not
\* taken: the confidence of the core point of a successful result is 0 or
\* the chosen candidate's confidence times the local contrast.
C36_EdgeBranchNotTaken ==
    \A i \in DOMAIN returned :
        LET call == returned[i]
            image == call.image
        IN \E candidates \in {Candidates(image, call.params)} :
              /\ \A j \in DOMAIN candidates :
                    is_point_valid(candidates[j], image.cols, image.rows) =>
                        /\ candidates[j].x - 10 >= 0
                        /\ candidates[j].x + 10 < image.cols
                        /\ candidates[j].y - 10 >= 0
                        /\ candidates[j].y + 10 < image.rows
              /\ call.result.success =>
                    \E chosen \in {select_best_core_point(candidates)} :
                       call.result.core_points[1].confidence \in
                           {0, MulMilli(chosen.confidence, image.contrast)}

\* a success whose confidence is the candidate's times a contrast that is
\* not one half
C36_Witness ==
    /\ returned # <<>>
    /\ returned[1].result.success
    /\ returned[1].image.contrast # 500
    /\ returned[1].result.core_points[1].confidence > 0
    /\ \E chosen \in {select_best_core_point(
                          Candidates(returned[1].image, returned[1].params))} :
          /\ is_point_valid(chosen, returned[1].image.cols, returned[1].image.rows)
          /\ returned[1].result.core_points[1].confidence # chosen.confidence \div 2

\* C37: with the default parameters (block_size 16, min_confidence 0.3) no
\* call on an image of exactly 101x101 returns success = true.
C37_MinimalImageNeverSucceeds ==
    \A i \in DOMAIN returned :
        (/\ returned[i].image.rows = 101
         /\ returned[i].image.cols = 101
         /\ returned[i].params.block_size = 16
         /\ returned[i].params.min_confidence = 300000)
            => ~returned[i].result.success

\* a 101x101 image with a candidate on the grid, refused with the default
\* parameters because validation gave it confidence 0
C37_Witness ==
    /\ returned # <<>>
    /\ returned[1].image.rows = 101
    /\ returned[1].image.cols = 101
    /\ returned[1].params = DetectionParams
    /\ Candidates(returned[1].image, returned[1].params) # <<>>
    /\ returned[1].result.error_message
          = "Core point confidence too low: 0.000000"

\* ------------------------------------- claims on the cache under concurrency
\* C32: whenever cache_mutex is not held the byte counter is the sum of
\* memory_size over the entries of the map, under every interleaving of
\* load_image, remove_from_cache and clear_cache.
C32_SizeIsSumOfEntries ==
    cache_mutex = 0 => current_cache_size = Occupied(image_cache)

\* C33: when a caching load_image call that inserted returns, the image it
\* decoded is in the cache if its footprint is at most the byte budget the
\* call read.
C33_InsertedEntryStays ==
    [][\A t \in Threads :
          (/\ loads[t].pc = "cleanup"
           /\ loads'[t].pc = "idle"
           /\ calculate_image_memory_size(loads[t].image)
                 <= loads[t].max_cache_bytes)
             => loads[t].normalized_path \in DOMAIN image_cache']_vars

\* C34: a load_image call with use_cache = false leaves the entries, the
\* byte counter, the hit counter and the miss counter as they were and
\* touches none of them; it returns the empty image when the decode fails
\* and otherwise an image with a buffer of its own that holds the pixels of
\* the file, whether or not the path is cached.
C34_UncachedLoadLeavesCache ==
    [][\A t \in Threads :
          LET key == loads'[t].normalized_path
          IN (Begins(t, key) /\ ~loads'[t].use_cache)
             => /\ image_cache' = image_cache
                /\ current_cache_size' = current_cache_size
                /\ cache_hits' = cache_hits
                /\ cache_misses' = cache_misses
                /\ access' = access
                /\ cache_mutex' = cache_mutex
                /\ loads'[t].pc = "idle"
                /\ IF IsEmpty(imread(key))
                   THEN /\ loads'[t].result = NoMat
                        /\ loads'[t].outcome = "failed"
                   ELSE /\ loads'[t].outcome = "uncached"
                        /\ loads'[t].result.data \notin DOMAIN buffers
                        /\ buffers'[loads'[t].result.data]
                              = imread(key).pixels
                        /\ \A k \in DOMAIN image_cache' :
                              image_cache'[k].image.data
                                 # loads'[t].result.data]_vars

\* a call without the cache has returned the decoded file while its path
\* was cached, and no hit was counted
C34_Witness ==
    \E t \in Threads :
       /\ loads[t].pc = "idle"
       /\ loads[t].outcome = "uncached"
       /\ ~loads[t].use_cache
       /\ loads[t].normalized_path \in DOMAIN image_cache
       /\ loads[t].result.data
             # image_cache[loads[t].normalized_path].image.data
       /\ cache_hits = 0
       /\ cache_misses = 1

\* ------------------------------------------------------- Timer profiling
\* The calls modelled are profile_start, profile_stop and profile_add, made
\* by two threads in any order.  Times are whole microseconds.
MaxProfileCalls == 4

\* the times passed to profile_add
AddedTimes == {5}

besidesTimer == <<detVars, batchVars, cacheVars, fileBatchVars, lockVars>>

\* a lock_guard constructor that does not wait for the mutex
FreeAlways(mutex) == TRUE

\* std::lock_guard<std::mutex> lock(mutex) returns once the mutex is free
Free(mutex) == mutex = 0

\* Timer::stop: the elapsed microseconds, 0.0 for a timer that is not running
stop(timer, now) ==
    IF ~timer.is_running THEN 0 ELSE now - timer.start_time

\* map.erase(name)
Without(map, name) == [n \in DOMAIN map \ {name} |-> map[n]]

\* Timer::profile_start: active_timers[name].start() on the caller's own map
profile_start(t, name) ==
    /\ profiling[t].pc = "idle"
    /\ timer_history.calls < MaxProfileCalls
    /\ timer_now' = timer_now + 1
    /\ active_timers' = [active_timers EXCEPT
                           ![t] = Assign(@, name, Timer(timer_now + 1, TRUE))]
    /\ timer_history' = [timer_history EXCEPT
                           !.calls = @ + 1,
                           !.last = <<t, "start", name>>,
                           !.started[t] = @ \cup {name}]
    /\ UNCHANGED <<total_times, call_counts, profile_mutex, profiling,
                   besidesTimer>>

\* Timer::profile_stop up to the lock_guard: the lookup in the caller's own
\* map, the early return of 0.0 and it->second.stop()
profile_stop(t, name) ==
    /\ profiling[t].pc = "idle"
    /\ timer_history.calls < MaxProfileCalls
    /\ IF name \notin DOMAIN active_timers[t]
       THEN /\ profiling' = [profiling EXCEPT
                               ![t] = Profile("idle", "stop", name, 0, 0, 0)]
            /\ timer_history' = [timer_history EXCEPT
                                   !.calls = @ + 1,
                                   !.last = <<t, "stop", name>>]
            /\ UNCHANGED <<active_timers, timer_now>>
       ELSE /\ timer_now' = timer_now + 1
            /\ profiling' = [profiling EXCEPT
                  ![t] = Profile("lock", "stop", name,
                                 stop(active_timers[t][name], timer_now + 1),
                                 0, 0)]
            /\ active_timers' = [active_timers EXCEPT
                                   ![t][name].is_running = FALSE]
            /\ timer_history' = [timer_history EXCEPT
                                   !.calls = @ + 1,
                                   !.last = <<t, "stop", name>>,
                                   !.matched[name] = @ + 1]
    /\ UNCHANGED <<total_times, call_counts, profile_mutex, besidesTimer>>

\* Timer::profile_add up to the lock_guard
profile_add(t, name, time_us) ==
    /\ profiling[t].pc = "idle"
    /\ timer_history.calls < MaxProfileCalls
    /\ profiling' = [profiling EXCEPT
                       ![t] = Profile("lock", "add", name, time_us, 0, 0)]
    /\ timer_history' = [timer_history EXCEPT
                           !.calls = @ + 1,
                           !.last = <<t, "add", name>>,
                           !.added[name] = @ + 1]
    /\ UNCHANGED <<active_timers, total_times, call_counts, profile_mutex,
                   timer_now, besidesTimer>>

\* std::lock_guard<std::mutex> lock(profile_mutex)
ProfileLock(t) ==
    /\ profiling[t].pc = "lock"
    /\ Free(profile_mutex)
    /\ profile_mutex' = t
    /\ profiling' = [profiling EXCEPT ![t].pc = "total"]
    /\ UNCHANGED <<active_timers, total_times, call_counts, timer_now,
                   timer_history, besidesTimer>>

\* total_times[name] += elapsed
ProfileTotal(t) ==
    /\ profiling[t].pc = "total"
    /\ total_times' = Assign(total_times, profiling[t].name,
                             At(total_times, profiling[t].name)
                                + profiling[t].elapsed)
    /\ profiling' = [profiling EXCEPT ![t].pc = "read"]
    /\ UNCHANGED <<active_timers, call_counts, profile_mutex, timer_now,
                   timer_history, besidesTimer>>

\* call_counts[name]++, the read: operator[] inserts a missing entry
ProfileRead(t) ==
    /\ profiling[t].pc = "read"
    /\ call_counts' = Assign(call_counts, profiling[t].name,
                             At(call_counts, profiling[t].name))
    /\ profiling' = [profiling EXCEPT
                       ![t].pc = "write",
                       ![t].count = At(call_counts, profiling[t].name)]
    /\ UNCHANGED <<active_timers, total_times, profile_mutex, timer_now,
                   timer_history, besidesTimer>>

\* call_counts[name]++, the write
ProfileWrite(t) ==
    /\ profiling[t].pc = "write"
    /\ call_counts' = Assign(call_counts, profiling[t].name,
                             profiling[t].count + 1)
    /\ profiling' = [profiling EXCEPT ![t].pc = "unlock"]
    /\ UNCHANGED <<active_timers, total_times, profile_mutex, timer_now,
                   timer_history, besidesTimer>>

\* the lock_guard is released; profile_stop erases the timer from the
\* caller's own map and returns elapsed, profile_add returns
ProfileReturn(t) ==
    /\ profiling[t].pc = "unlock"
    /\ profile_mutex' = 0
    /\ IF profiling[t].op = "stop"
       THEN /\ active_timers' = [active_timers EXCEPT
                                   ![t] = Without(@, profiling[t].name)]
            /\ profiling' = [profiling EXCEPT
                               ![t].pc = "idle",
                               ![t].result = profiling[t].elapsed]
            /\ timer_history' = [timer_history EXCEPT
                                   !.started[t] = @ \ {profiling[t].name}]
       ELSE /\ profiling' = [profiling EXCEPT ![t].pc = "idle",
                                              ![t].result = 0]
            /\ UNCHANGED <<active_timers, timer_history>>
    /\ UNCHANGED <<total_times, call_counts, timer_now, besidesTimer>>

UtilInit ==
    /\ InitDetectors({DetectionParams})
    /\ simd_available
    /\ InitBatch
    /\ InitCache
    /\ InitUtil

TimerStart == \E t \in Threads, name \in ProfileNames : profile_start(t, name)

TimerStop == \E t \in Threads, name \in ProfileNames : profile_stop(t, name)

TimerAdd ==
    \E t \in Threads, name \in ProfileNames, time_us \in AddedTimes :
        profile_add(t, name, time_us)

TimerLock == \E t \in Threads : ProfileLock(t)

TimerTotal == \E t \in Threads : ProfileTotal(t)

TimerRead == \E t \in Threads : ProfileRead(t)

TimerWrite == \E t \in Threads : ProfileWrite(t)

TimerReturn == \E t \in Threads : ProfileReturn(t)

TimerNext ==
    \/ TimerStart \/ TimerStop \/ TimerAdd \/ TimerLock \/ TimerTotal
    \/ TimerRead \/ TimerWrite \/ TimerReturn

SpecTimer == UtilInit /\ [][TimerNext]_vars

\* ------------------------------------------------- claims on the profiler
\* the calls that have passed the lookup and not yet written the count
Pending(name) ==
    Cardinality({t \in Threads :
                    /\ profiling[t].pc \in {"lock", "total", "read", "write"}
                    /\ profiling[t].name = name})

\* C39: call_counts[name] plus the calls still on their way to the increment
\* is the number of profile_stop(name) calls that found an active timer plus
\* the number of profile_add(name) calls; a profile_stop finds a timer
\* exactly when its own thread started the name and has not stopped it
\* since, otherwise it returns 0 and leaves total_times and call_counts as
\* they were; and a call changes the active timers of its own thread only.
C39_CountsMatchedStopsAndAdds ==
    /\ [](\A name \in ProfileNames :
             At(call_counts, name) + Pending(name)
                = timer_history.matched[name] + timer_history.added[name])
    /\ [][\A t \in Threads : \A name \in ProfileNames :
             /\ (/\ timer_history'.calls = timer_history.calls + 1
                 /\ timer_history'.last = <<t, "stop", name>>)
                => IF name \in timer_history.started[t]
                   THEN /\ profiling'[t].pc = "lock"
                        /\ timer_history'.matched[name]
                              = timer_history.matched[name] + 1
                   ELSE /\ profiling'[t].pc = "idle"
                        /\ profiling'[t].result = 0
                        /\ total_times' = total_times
                        /\ call_counts' = call_counts
                        /\ timer_history'.matched = timer_history.matched
             /\ (/\ profiling'[t] = profiling[t]
                 /\ ~(/\ timer_history'.calls = timer_history.calls + 1
                      /\ timer_history'.last[1] = t))
                => active_timers'[t] = active_timers[t]]_vars

\* both threads have returned: thread 2 stopped a name only thread 1 had
\* started and got 0, thread 1 stopped it and the count is 1 ...
C39_Witness ==
    /\ \A t \in Threads : profiling[t].pc = "idle"
    /\ timer_history.calls = MaxProfileCalls
    /\ profiling[2].op = "stop"
    /\ profiling[2].result = 0
    /\ profiling[1].op = "stop"
    /\ profiling[1].result > 0
    /\ profiling[1].name = profiling[2].name
    /\ At(call_counts, profiling[1].name) = 2
    /\ timer_history.added[profiling[1].name] = 1

\* --------------------------------------------------------------- FileBatch
\* One FileBatch, constructed from a list of paths and then used by one
\* caller through next() and reset().
MaxBatchCalls == 8

besidesFileBatch == <<detVars, batchVars, cacheVars, timerVars, lockVars>>

\* fs::path(filepath).filename().string()
get_filename_from_path(filepath) ==
    IF filepath.parts = <<>> THEN "" ELSE filepath.parts[Len(filepath.parts)]

\* fs::exists(filepath) && fs::is_regular_file(filepath)
file_exists(filepath) == FileOf(filepath) \in DOMAIN Disk

\* FileManager::get_file_info; every file of the model has the supported
\* extension .bmp, and file_size is not modelled
get_file_info(filepath) ==
    [filepath |-> normalize_path(filepath),
     filename |-> get_filename_from_path(filepath),
     is_valid |-> file_exists(filepath),
     error_message |-> IF file_exists(filepath) THEN ""
                       ELSE "File does not exist"]

\* bool has_next() const
has_next(batch_files, index) == index < Len(batch_files)

\* size_t size() const
size(batch_files) == Len(batch_files)

\* size_t remaining() const
remaining(batch_files, index) == Len(batch_files) - index

\* an index that next() leaves where it was
post_increment_stay(index) == index

\* current_index++ : the value of the index after files[current_index++]
post_increment(index) == index + 1

\* the path lists a batch is built from: with a missing file, a path twice,
\* a single path and no path
FileLists ==
    BatchPaths \cup {<<Path(FALSE, <<"a.bmp">>), Path(FALSE, <<"c.bmp">>)>>}

\* FileBatch::FileBatch(const std::vector<std::string>& filepaths)
FileBatch(filepaths) ==
    /\ ~iteration.constructed
    /\ files' = [i \in DOMAIN filepaths |-> get_file_info(filepaths[i])]
    /\ current_index' = 0
    /\ iteration' = [NoIteration EXCEPT !.constructed = TRUE]
    /\ UNCHANGED besidesFileBatch

\* FileBatch::next: throws when nothing is left, otherwise returns the file
\* at the index (files[current_index] counts from 0) and advances the index
next ==
    /\ iteration.constructed
    /\ iteration.calls < MaxBatchCalls
    /\ IF ~has_next(files, current_index)
       THEN /\ iteration' = [iteration EXCEPT !.thrown = TRUE,
                                              !.calls = @ + 1,
                                              !.last = "next"]
            /\ UNCHANGED current_index
       ELSE /\ current_index' = post_increment(current_index)
            /\ iteration' = [iteration EXCEPT
                               !.given = Append(@, files[current_index + 1]),
                               !.thrown = FALSE,
                               !.calls = @ + 1,
                               !.last = "next"]
    /\ UNCHANGED <<files, besidesFileBatch>>

\* void reset() { current_index = 0; }
reset ==
    /\ iteration.constructed
    /\ iteration.calls < MaxBatchCalls
    /\ current_index' = 0
    /\ iteration' = [iteration EXCEPT !.given = <<>>,
                                      !.before = iteration.given,
                                      !.thrown = FALSE,
                                      !.calls = @ + 1,
                                      !.last = "reset"]
    /\ UNCHANGED <<files, besidesFileBatch>>

FileBatchConstruct == \E filepaths \in FileLists : FileBatch(filepaths)

FileBatchNext ==
    FileBatchConstruct \/ next \/ reset

SpecFileBatch == UtilInit /\ [][FileBatchNext]_vars

\* -------------------------------------------------- claims on FileBatch
\* C38: in every state 0 <= current_index <= size(), remaining() is the
\* number of files not yet returned, and the files next() returned since the
\* construction or the last reset() are the first current_index files in
\* their stored order; a next() call with has_next() true advances the index
\* by one and does not throw, one with has_next() false throws and leaves
\* the index; reset() puts the index at 0.
C38_FileBatchIteratesInOrder ==
    /\ [](/\ 0 <= current_index
          /\ current_index <= size(files)
          /\ remaining(files, current_index)
                = size(files) - Len(iteration.given)
          /\ iteration.given = SubSeq(files, 1, current_index))
    /\ [][/\ (iteration'.calls = iteration.calls + 1
              /\ iteration'.last = "next")
             => IF current_index < Len(files)
                THEN /\ current_index' = current_index + 1
                     /\ ~iteration'.thrown
                     /\ iteration'.given
                           = Append(iteration.given, files[current_index + 1])
                ELSE /\ current_index' = current_index
                     /\ iteration'.thrown
                     /\ iteration'.given = iteration.given
          /\ (iteration'.calls = iteration.calls + 1
              /\ iteration'.last = "reset")
             => /\ current_index' = 0
                /\ files' = files]_vars

\* a batch of three files was iterated to its end, reset and iterated
\* again: both rounds gave the three files in order, and one more next()
\* threw
C38_Witness ==
    /\ Len(files) = 3
    /\ current_index = 3
    /\ iteration.thrown
    /\ iteration.before = files
    /\ iteration.given = files
    /\ ~has_next(files, current_index)
    /\ remaining(files, current_index) = 0

\* ------------------------------------------------- the mutexes of the program
\* Every public operation of FileManager, Logger and Timer that takes a mutex
\* is reduced to what it does with mutexes, in the order of its statements:
\* lock_guard constructions, the ends of their scopes, and Logger calls.
\* Branches that depend on data (hit or miss, decode failure, the turns of
\* the eviction loop) are each a run of their own.
MaxEvictions == 2

cacheRest == <<image_cache, max_cache_size_mb, current_cache_size, cache_hits,
               cache_misses, buffers, clock, loads, access, history, batch_load>>

timerRest == <<active_timers, total_times, call_counts, profiling, timer_now,
               timer_history>>

besidesLocks == <<detVars, batchVars, cacheRest, timerRest, fileBatchVars>>

Mutexes == {"cache_mutex", "log_mutex", "profile_mutex"}

\* std::lock_guard<std::mutex> lock(mutex)
Lock(mutex) == [do |-> "lock", mutex |-> mutex, level |-> 0]

\* the end of the scope of the lock_guard
Unlock(mutex) == [do |-> "unlock", mutex |-> mutex, level |-> 0]

\* Logger::debug, info, warning, error: write_log(level, message)
Log(level) == [do |-> "log", mutex |-> "", level |-> level]

\* current_level = level
SetLevel(level) == [do |-> "set", mutex |-> "", level |-> level]

\* an eviction that takes cache_mutex itself
RemoveOldestLocking ==
    <<Lock("cache_mutex"), Log(DEBUG), Unlock("cache_mutex")>>

\* remove_oldest_cache_entry: no lock_guard, Logger::debug at its end
RemoveOldestSteps == <<Log(DEBUG)>>

\* cleanup_cache_if_needed: no lock_guard, a number of evictions
RECURSIVE CleanupSteps(_)
CleanupSteps(turns) ==
    IF turns = 0 THEN <<>> ELSE RemoveOldestSteps \o CleanupSteps(turns - 1)

\* load_image: the hit, and for a miss or a call without the cache the
\* failed decode and the decoded image, with or without the warning, with
\* the insertion and its evictions under the second lock_guard
LoadImageSteps ==
    {<<Lock("cache_mutex"), Log(DEBUG), Unlock("cache_mutex")>>}
    \cup {(IF use_cache THEN <<Lock("cache_mutex"), Unlock("cache_mutex")>>
           ELSE <<>>) \o <<Log(ERROR)>> : use_cache \in BOOLEAN}
    \cup {(IF use_cache THEN <<Lock("cache_mutex"), Unlock("cache_mutex")>>
           ELSE <<>>)
          \o (IF warned THEN <<Log(WARNING)>> ELSE <<>>)
          \o (IF use_cache
              THEN <<Lock("cache_mutex"), Log(DEBUG)>>
                   \o CleanupSteps(turns) \o <<Unlock("cache_mutex")>>
              ELSE <<>>) :
          use_cache \in BOOLEAN, warned \in BOOLEAN, turns \in 0..MaxEvictions}

\* clear_cache
ClearCacheSteps == <<Lock("cache_mutex"), Log(INFO), Unlock("cache_mutex")>>

\* remove_from_cache: Logger::debug when the entry was found
RemoveFromCacheSteps ==
    {<<Lock("cache_mutex"), Unlock("cache_mutex")>>,
     <<Lock("cache_mutex"), Log(DEBUG), Unlock("cache_mutex")>>}

\* get_cached_files, get_cache_statistics
ReadCacheSteps == <<Lock("cache_mutex"), Unlock("cache_mutex")>>

\* Logger::init and Logger::set_level
SetLevelSteps ==
    {<<Lock("log_mutex"), SetLevel(level), Unlock("log_mutex")>> :
        level \in {DEBUG, INFO, WARNING, ERROR}}

\* Logger::get_level, Logger::shutdown
ReadLoggerSteps == <<Lock("log_mutex"), Unlock("log_mutex")>>

\* Timer::profile_stop that found its timer, profile_add,
\* print_profile_summary, clear_profile_data
ProfileSteps == <<Lock("profile_mutex"), Unlock("profile_mutex")>>

Run(op, todo) == [op |-> op, todo |-> todo]

\* the operations a thread may be in
Runs ==
    {Run("load_image", todo) : todo \in LoadImageSteps}
    \cup {Run("clear_cache", ClearCacheSteps)}
    \cup {Run("remove_from_cache", todo) : todo \in RemoveFromCacheSteps}
    \cup {Run("get_cache_statistics", ReadCacheSteps)}
    \cup {Run("set_level", todo) : todo \in SetLevelSteps}
    \cup {Run("get_level", ReadLoggerSteps)}
    \cup {Run("profile_stop", ProfileSteps)}

Holder(mutex) ==
    IF mutex = "cache_mutex" THEN cache_mutex
    ELSE IF mutex = "log_mutex" THEN log_mutex
    ELSE profile_mutex

\* the mutex gets a holder (0: none), the other mutexes keep theirs
SetHolder(mutex, t) ==
    /\ cache_mutex' = IF mutex = "cache_mutex" THEN t ELSE cache_mutex
    /\ log_mutex' = IF mutex = "log_mutex" THEN t ELSE log_mutex
    /\ profile_mutex' = IF mutex = "profile_mutex" THEN t ELSE profile_mutex

\* the thread enters an operation
Enter(t, run) ==
    /\ running[t].op = "none"
    /\ running' = [running EXCEPT
                     ![t] = [op |-> run.op, todo |-> run.todo, held |-> <<>>]]
    /\ UNCHANGED <<cache_mutex, log_mutex, profile_mutex, current_level,
                   besidesLocks>>

\* the lock_guard constructor returns: the mutex was free
Acquire(t) ==
    /\ running[t].todo # <<>>
    /\ Head(running[t].todo).do = "lock"
    /\ \E mutex \in {Head(running[t].todo).mutex} :
          /\ Holder(mutex) = 0
          /\ SetHolder(mutex, t)
          /\ running' = [running EXCEPT ![t].todo = Tail(@),
                                        ![t].held = Append(@, mutex)]
    /\ UNCHANGED <<current_level, besidesLocks>>

\* the lock_guard destructor
Release(t) ==
    /\ running[t].todo # <<>>
    /\ Head(running[t].todo).do = "unlock"
    /\ \E mutex \in {Head(running[t].todo).mutex} :
          /\ SetHolder(mutex, 0)
          /\ running' = [running EXCEPT
                           ![t].todo = Tail(@),
                           ![t].held = SelectSeq(@, LAMBDA m : m # mutex)]
    /\ UNCHANGED <<current_level, besidesLocks>>

\* Logger::write_log: returns at once below current_level, otherwise takes
\* log_mutex for the rest of the function
write_log(t) ==
    /\ running[t].todo # <<>>
    /\ Head(running[t].todo).do = "log"
    /\ running' = [running EXCEPT ![t].todo =
          IF Head(@).level < current_level THEN Tail(@)
          ELSE <<Lock("log_mutex"), Unlock("log_mutex")>> \o Tail(@)]
    /\ UNCHANGED <<cache_mutex, log_mutex, profile_mutex, current_level,
                   besidesLocks>>

\* current_level = level, under log_mutex
set_level(t) ==
    /\ running[t].todo # <<>>
    /\ Head(running[t].todo).do = "set"
    /\ current_level' = Head(running[t].todo).level
    /\ running' = [running EXCEPT ![t].todo = Tail(@)]
    /\ UNCHANGED <<cache_mutex, log_mutex, profile_mutex, besidesLocks>>

\* the operation returns
Leave(t) ==
    /\ running[t].op # "none"
    /\ running[t].todo = <<>>
    /\ running' = [running EXCEPT ![t] = NotRunning]
    /\ UNCHANGED <<cache_mutex, log_mutex, profile_mutex, current_level,
                   besidesLocks>>

LocksEnter == \E t \in Threads, run \in Runs : Enter(t, run)

LocksAcquire == \E t \in Threads : Acquire(t)

LocksRelease == \E t \in Threads : Release(t)

LocksLog == \E t \in Threads : write_log(t)

LocksSetLevel == \E t \in Threads : set_level(t)

LocksLeave == \E t \in Threads : Leave(t)

LocksNext ==
    \/ LocksEnter \/ LocksAcquire \/ LocksRelease \/ LocksLog
    \/ LocksSetLevel \/ LocksLeave

SpecLocks == UtilInit /\ [][LocksNext]_vars

\* ---------------------------------------------------- claims on the mutexes
\* the thread stands at a lock_guard whose mutex is taken
Waits(t) ==
    /\ running[t].todo # <<>>
    /\ Head(running[t].todo).do = "lock"
    /\ Holder(Head(running[t].todo).mutex) # 0

\* C35: no thread stands at a lock_guard for a mutex it holds itself, a
\* thread that waits for a mutex waits for a thread that does not wait, and
\* the mutexes a thread holds are none, one, or cache_mutex and then
\* log_mutex.
C35_NoDeadlock ==
    \A t \in Threads :
       /\ Waits(t) =>
             /\ Holder(Head(running[t].todo).mutex) # t
             /\ ~Waits(Holder(Head(running[t].todo).mutex))
       /\ running[t].held \in
             {<<>>, <<"cache_mutex">>, <<"log_mutex">>, <<"profile_mutex">>,
              <<"cache_mutex", "log_mutex">>}
       /\ \A m \in Mutexes :
             Holder(m) = t <=> \E i \in DOMAIN running[t].held :
                                  running[t].held[i] = m

\* thread 1 logs an eviction under cache_mutex and holds log_mutex too,
\* thread 2 waits for log_mutex
C35_Witness ==
    /\ running[1].op = "load_image"
    /\ running[1].held = <<"cache_mutex", "log_mutex">>
    /\ Len(running[1].todo) = 2
    /\ current_level = DEBUG
    /\ Waits(2)
    /\ Head(running[2].todo).mutex = "log_mutex"
    /\ running[2].held = <<>>

====
